---------------------------- MODULE Spec2Model ----------------------------
(***************************************************************************)
(* Model of ducttape/services/performance.py: the start/wait/stop          *)
(* lifecycle of PerformanceService, its per-node worker threads, and the   *)
(* parsers that turn a benchmark tool's output lines into metric records.  *)
(*                                                                         *)
(* Python values are modelled as tagged records:                           *)
(*   None            [tag |-> "None"]                                      *)
(*   a str           [tag |-> "str",  v |-> "..."]                         *)
(*   a dict          [tag |-> "dict", v |-> [key |-> value, ...]]          *)
(*   a list          [tag |-> "list", v |-> <<...>>]                       *)
(*   attribute that was never assigned   [tag |-> "unset"]                 *)
(* A float is an IEEE-754 double: [k |-> "num", s |-> sign, m |-> odd      *)
(* significand, e |-> binary exponent] for sign * m * 2^e, or k = "inf",   *)
(* or k = "nan".  An int that int() returns has no bound: [s |-> sign,     *)
(* big |-> absolute value].  Significands and absolute values are          *)
(* sequences of limbs in base 2^15, lowest first.  The integers the        *)
(* constructors are given are integers of TLA+.  An operation that can     *)
(* raise returns a record whose err field names the exception ("none"      *)
(* when it returned normally).                                             *)
(***************************************************************************)
EXTENDS Integers, Sequences, FiniteSets, TLC

----------------------------------------------------------------------------
(* Bounds of the model *)

\* largest num_nodes a run is constructed with
MaxNodes == 3

\* largest num_nodes of a run constructed with intermediate_stats=True
MaxSampledNodes == 2

\* most intermediate samples a worker appends to its stats sequence
MaxSamples == 2

\* most stop() calls that pass the assertion and release the nodes
MaxStops == 2

\* largest absolute value of the throughput a constructor is given
MaxThroughput == 2

\* largest batch_size a constructor is given
MaxBatchSize == 2

\* most comma-separated fields of a line of the parser inputs
MaxFields == 9

\* largest num_nodes of the runs whose streams are drawn from the parser inputs
MaxParseNodes == 1

\* largest num_nodes of an end-to-end latency run
MaxLatencyNodes == 1

\* largest num_nodes of the runs that are constructed with every such
\* throughput and batch_size
MaxCommandNodes == 2

\* largest num_nodes of a Camus or Hadoop run
MaxStagedNodes == 2

\* most worker threads that repeated start() calls on one service object spawn
\* in all
MaxThreads == 2

\* likewise in the runs that are constructed with every such throughput and
\* batch_size
MaxCommandThreads == 2

\* likewise in an end-to-end latency run
MaxLatencyThreads == 1

\* likewise in a Camus or Hadoop run
MaxStagedThreads == 2

\* largest num_nodes of the runs in which the caller's thread is scheduled fairly
MaxFairNodes == 2

----------------------------------------------------------------------------
(* Python values *)

PyNone == [tag |-> "None"]

PyUnset == [tag |-> "unset"]

PyStr(s) == [tag |-> "str", v |-> s]

PyDict(d) == [tag |-> "dict", v |-> d]

PyList(l) == [tag |-> "list", v |-> l]

NoErr == "none"

----------------------------------------------------------------------------
(* str, int and float operations, on strings of characters up to U+00FF *)

Ch(s, i) == SubSeq(s, i, i)

\* str.isspace() of one character, the whitespace of split() and strip(): the
\* ASCII blanks, the separators 0x1c to 0x1f, NEL and the no-break space
IsSpace(c) ==
  c \in {" ", "\t", "\n", "\r", "\f", "", "", "", "", "", "", " "}

\* the whitespace int() and float() allow around a literal: the same without
\* the separators 0x1c to 0x1f
IsBlank(c) == c \in {" ", "\t", "\n", "\r", "\f", "", "", " "}

\* a decimal digit: of the characters up to U+00FF, which are those the strings
\* of this module hold, the ten ASCII digits
IsDigit(c) == c \in {"0", "1", "2", "3", "4", "5", "6", "7", "8", "9"}

DigitVal(c) ==
  CASE c = "0" -> 0 [] c = "1" -> 1 [] c = "2" -> 2 [] c = "3" -> 3
    [] c = "4" -> 4 [] c = "5" -> 5 [] c = "6" -> 6 [] c = "7" -> 7
    [] c = "8" -> 8 [] c = "9" -> 9

\* the k-th smallest element of a finite set of integers, k in 1..Cardinality(S)
Kth(S, k) == CHOOSE i \in S : Cardinality({j \in S : j < i}) = k - 1

\* the pieces of s between the positions pos of a separator
Pieces(s, pos) ==
  <<>> \o [k \in 1..(Cardinality(pos) + 1) |->
     SubSeq(s, IF k = 1 THEN 1 ELSE Kth(pos, k - 1) + 1,
               IF k = Cardinality(pos) + 1 THEN Len(s) ELSE Kth(pos, k) - 1)]

\* s.split(sep) for a one-character separator: every occurrence splits, and
\* empty pieces are kept
Split(s, sep) == Pieces(s, {i \in 1..Len(s) : Ch(s, i) = sep})

\* the substrings of s that start at the k-th of first and end at the k-th of last
Runs(s, first, last) ==
  <<>> \o [k \in 1..Cardinality(first) |-> SubSeq(s, Kth(first, k), Kth(last, k))]

\* s.split(): runs of whitespace separate, no empty pieces
SplitWs(s) ==
  Runs(s, {i \in 1..Len(s) : ~IsSpace(Ch(s, i)) /\ (i = 1 \/ IsSpace(Ch(s, i - 1)))},
          {i \in 1..Len(s) : ~IsSpace(Ch(s, i)) /\ (i = Len(s) \/ IsSpace(Ch(s, i + 1)))})

\* s without what precedes the first and follows the last position of ink
Between(s, ink) ==
  IF ink = {} THEN "" ELSE SubSeq(s, Kth(ink, 1), Kth(ink, Cardinality(ink)))

\* s.strip()
Strip(s) == Between(s, {i \in 1..Len(s) : ~IsSpace(Ch(s, i))})

\* s without the whitespace int() and float() allow around a literal
StripBlank(s) == Between(s, {i \in 1..Len(s) : ~IsBlank(Ch(s, i))})

\* s.startswith(p)
StartsWith(s, p) == Len(s) >= Len(p) /\ SubSeq(s, 1, Len(p)) = p

\* s[:-1]
DropLast(s) == SubSeq(s, 1, Len(s) - 1)

----------------------------------------------------------------------------
(* Natural numbers of any size.  A Python float is an IEEE-754 double, whose
   53-bit significand does not fit the 32-bit integers of TLC, so the numbers
   the float operations compute with are little-endian sequences of limbs,
   without high zero limbs; zero is the empty sequence. *)

\* the limb base, 2^15: a product of two limbs plus a carry fits 32 bits
Base == 32768

\* the largest element of a nonempty finite set of integers
MaxOf(S) == CHOOSE i \in S : \A j \in S : j <= i

\* the smallest element of a nonempty finite set of integers
MinOf(S) == CHOOSE i \in S : \A j \in S : i <= j

Limb(a, i) == IF i \in DOMAIN a THEN a[i] ELSE 0

BigNorm(a) ==
  IF \A i \in DOMAIN a : a[i] = 0 THEN <<>>
  ELSE SubSeq(a, 1, MaxOf({i \in DOMAIN a : a[i] # 0}))

\* the number n, 0 <= n < 2^31
BigOfInt(n) == BigNorm(<<n % Base, (n \div Base) % Base, n \div (Base * Base)>>)

\* -1, 0 or 1 as a < b, a = b or a > b
BigCmp(a, b) ==
  IF Len(a) # Len(b) THEN (IF Len(a) < Len(b) THEN -1 ELSE 1)
  ELSE IF a = b THEN 0
  ELSE IF a[MaxOf({i \in DOMAIN a : a[i] # b[i]})] < b[MaxOf({i \in DOMAIN a : a[i] # b[i]})]
       THEN -1 ELSE 1

\* whether adding a and b carries into limb i: some lower limb overflows, and
\* every limb between the two is full
CarryInto(a, b, i) ==
  \E j \in 1..(i - 1) :
     /\ Limb(a, j) + Limb(b, j) >= Base
     /\ \A n \in (j + 1)..(i - 1) : Limb(a, n) + Limb(b, n) = Base - 1

\* a + b
BigAdd(a, b) ==
  BigNorm([i \in 1..((IF Len(a) > Len(b) THEN Len(a) ELSE Len(b)) + 1) |->
             (Limb(a, i) + Limb(b, i) + (IF CarryInto(a, b, i) THEN 1 ELSE 0)) % Base])

\* whether subtracting b from a borrows from limb i: some lower limb is too
\* small, and every limb between the two is left with nothing
BorrowFrom(a, b, i) ==
  \E j \in 1..(i - 1) :
     /\ Limb(a, j) < Limb(b, j)
     /\ \A n \in (j + 1)..(i - 1) : Limb(a, n) = Limb(b, n)

\* a - b, for a >= b
BigSub(a, b) ==
  BigNorm([i \in 1..Len(a) |->
             (a[i] - Limb(b, i) - (IF BorrowFrom(a, b, i) THEN 1 ELSE 0) + Base) % Base])

\* a * k, for 0 <= k < Base: the low halves of the limb products, plus their
\* high halves one limb up
BigMulSmall(a, k) ==
  BigAdd([i \in 1..Len(a) |-> (a[i] * k) % Base],
         <<0>> \o [i \in 1..Len(a) |-> (a[i] * k) \div Base])

\* a * 2^k
BigShl(a, k) ==
  IF a = <<>> THEN <<>>
  ELSE [i \in 1..(k \div 15) |-> 0] \o BigMulSmall(a, 2 ^ (k % 15))

\* a \div 2^k
BigShr(a, k) ==
  IF Len(a) <= k \div 15 THEN <<>>
  ELSE BigNorm([i \in 1..(Len(a) - (k \div 15)) |->
                  (a[i + (k \div 15)] \div 2 ^ (k % 15))
                    + (Limb(a, i + (k \div 15) + 1) % 2 ^ (k % 15)) * 2 ^ (15 - (k % 15))])

\* a times the limbs lo to hi of b, each at its place
RECURSIVE BigMulC(_, _, _, _)
BigMulC(a, b, lo, hi) ==
  IF lo = hi THEN [j \in 1..(lo - 1) |-> 0] \o BigMulSmall(a, b[lo])
  ELSE BigAdd(BigMulC(a, b, lo, (lo + hi) \div 2), BigMulC(a, b, (lo + hi) \div 2 + 1, hi))

\* a * b
BigMul(a, b) == IF a = <<>> \/ b = <<>> THEN <<>> ELSE BigNorm(BigMulC(a, b, 1, Len(b)))

\* the number of bits of a
BigBitLen(a) ==
  IF a = <<>> THEN 0
  ELSE 15 * (Len(a) - 1) + MinOf({n \in 1..15 : a[Len(a)] < 2 ^ n})

\* the number of zero bits below the lowest one bit of a, a > 0
BigLowZeros(a) ==
  15 * (MinOf({i \in DOMAIN a : a[i] # 0}) - 1)
    + MaxOf({n \in 0..14 : a[MinOf({i \in DOMAIN a : a[i] # 0})] % 2 ^ n = 0})

BigIsOdd(a) == a # <<>> /\ a[1] % 2 = 1

BigSquare(a) == BigMul(a, a)

\* 10^k
RECURSIVE BigPow10(_)
BigPow10(k) ==
  IF k = 0 THEN <<1>>
  ELSE IF k % 2 = 1 THEN BigMulSmall(BigPow10(k - 1), 10)
  ELSE BigSquare(BigPow10(k \div 2))

\* bit i of the quotient of a by d, and what is left of a
BigDivBit(a, d, i) ==
  IF BigCmp(a, BigShl(d, i)) >= 0 THEN [q |-> <<1>>, r |-> BigSub(a, BigShl(d, i))]
  ELSE [q |-> <<>>, r |-> a]

\* the high bits top of a quotient above its n low bits bot
BigDivJoin(top, bot, n) == [q |-> BigAdd(BigShl(top.q, n), bot.q), r |-> bot.r]

\* the bits hi down to lo of the quotient of a by d, as a number, and the
\* remainder, for d > 0 and a < d * 2^(hi + 1): the high half of the bits is
\* found first, the low half from what the high half leaves
RECURSIVE BigDivC(_, _, _, _)
BigDivLow(top, d, hi, lo) ==
  BigDivJoin(top, BigDivC(top.r, d, (hi + lo) \div 2, lo), (hi + lo) \div 2 - lo + 1)

BigDivC(a, d, hi, lo) ==
  IF hi = lo THEN BigDivBit(a, BigShl(d, lo), 0)
  ELSE BigDivLow(BigDivC(a, d, hi, (hi + lo) \div 2 + 1), d, hi, lo)

\* the quotient and the remainder of a by a number d of one limb, d > 0: limb
\* by limb from the highest, r being what the higher limbs leave
RECURSIVE BigDivSmallC(_, _, _, _, _)
BigDivSmallC(a, d, i, r, q) ==
  IF i = 0 THEN [q |-> BigNorm(q), r |-> BigOfInt(r)]
  ELSE BigDivSmallC(a, d, i - 1, (r * Base + a[i]) % d, <<(r * Base + a[i]) \div d>> \o q)

BigDivSmall(a, d) == BigDivSmallC(a, d, Len(a), 0, <<>>)

----------------------------------------------------------------------------
(* Python floats: IEEE-754 doubles *)

\* the double sign * m * 2^e for a number m of at most 53 bits, -1074 <= e and
\* m * 2^e < 2^1024: the significand is kept odd, so that equal doubles are
\* equal values; zero has the empty significand and keeps its sign
Finite(sign, m, e) ==
  IF m = <<>> THEN [k |-> "num", s |-> sign, m |-> <<>>, e |-> 0]
  ELSE [k |-> "num", s |-> sign, m |-> BigShr(m, BigLowZeros(m)), e |-> e + BigLowZeros(m)]

Inf(sign) == [k |-> "inf", s |-> sign, m |-> <<>>, e |-> 0]

NaN == [k |-> "nan", s |-> 1, m |-> <<>>, e |-> 0]

Zero(sign) == Finite(sign, <<>>, 0)

IsZero(x) == x.k = "num" /\ x.m = <<>>

\* whether a number cut to kept is rounded up: rest is -1, 0 or 1 as what was
\* cut off is below, at or above one half of the last kept bit, and more is
\* set when the exact number has further digits below those that were cut off
RoundsUp(kept, rest, more) == rest > 0 \/ (rest = 0 /\ (more \/ BigIsOdd(kept)))

\* the double sign * m * 2^e, infinite from 2^1024 on
Rounded(sign, m, e) == IF BigBitLen(m) + e > 1024 THEN Inf(sign) ELSE Finite(sign, m, e)

RoundKept(sign, q, more, e, d, kept) ==
  Rounded(sign,
          IF RoundsUp(kept, BigCmp(BigSub(q, BigShl(kept, d)), BigShl(<<1>>, d - 1)), more)
          THEN BigAdd(kept, <<1>>) ELSE kept,
          e + d)

\* q * 2^e without its d lowest bits, d > 0, rounded to nearest, ties to even
RoundAt(sign, q, more, e, d) == RoundKept(sign, q, more, e, d, BigShr(q, d))

\* the double nearest to sign * (q * 2^e + a rest below 2^e that is not zero
\* iff more), for q of 55 bits or more when more is set: 53 bits are kept,
\* fewer when the number is below 2^-1022
RoundBits(sign, q, more, e) ==
  IF BigBitLen(q) <= 53 /\ e >= -1074
  THEN Rounded(sign, q, e)
  ELSE RoundAt(sign, q, more, e,
               IF BigBitLen(q) - 53 >= -1074 - e THEN BigBitLen(q) - 53 ELSE -1074 - e)

\* the quotient of a * 2^k by d (of a by d * 2^-k when k < 0), which is below
\* 2^58, and the remainder
ShiftedDiv(a, d, k) ==
  IF k >= 0 /\ Len(d) = 1 THEN BigDivSmall(BigShl(a, k), d[1])
  ELSE IF k >= 0 THEN BigDivC(BigShl(a, k), d, 57, 0)
  ELSE BigDivC(a, BigShl(d, -k), 57, 0)

\* the double nearest to sign * (p / q) * 2^e, for p > 0 and q > 0: the
\* quotient is computed to 56 or 57 bits
RoundQuotient(sign, qr, e) == RoundBits(sign, qr.q, qr.r # <<>>, e)

DivRoundK(sign, p, q, e, k) == RoundQuotient(sign, ShiftedDiv(p, q, k), e - k)

DivRound(sign, p, q, e) == DivRoundK(sign, p, q, e, 56 + BigBitLen(q) - BigBitLen(p))

\* a * b of two floats
FloatMul(a, b) ==
  IF a.k = "nan" \/ b.k = "nan" THEN NaN
  ELSE IF a.k = "inf" \/ b.k = "inf"
       THEN (IF IsZero(a) \/ IsZero(b) THEN NaN ELSE Inf(a.s * b.s))
  ELSE RoundBits(a.s * b.s, BigMul(a.m, b.m), FALSE, a.e + b.e)

\* a / b of two floats, b not zero
FloatQuotient(a, b) ==
  IF a.k = "nan" \/ b.k = "nan" THEN NaN
  ELSE IF a.k = "inf" THEN (IF b.k = "inf" THEN NaN ELSE Inf(a.s * b.s))
  ELSE IF b.k = "inf" \/ IsZero(a) THEN Zero(a.s * b.s)
  ELSE DivRound(a.s * b.s, a.m, b.m, a.e - b.e)

\* a / b: float division by zero raises
FloatDiv(a, b) ==
  IF IsZero(b) THEN [err |-> "ZeroDivisionError", val |-> NaN]
  ELSE [err |-> NoErr, val |-> FloatQuotient(a, b)]

----------------------------------------------------------------------------
(* int(s) and float(s) *)

HasSign(s) == Len(s) > 0 /\ Ch(s, 1) \in {"+", "-"}

Unsigned(s) == IF HasSign(s) THEN SubSeq(s, 2, Len(s)) ELSE s

SignOf(s) == IF Len(s) > 0 /\ Ch(s, 1) = "-" THEN -1 ELSE 1

\* one or more digits, with single underscores between digits allowed
AllDigits(s) ==
  /\ Len(s) > 0
  /\ \A i \in 1..Len(s) : IsDigit(Ch(s, i)) \/ Ch(s, i) = "_"
  /\ IsDigit(Ch(s, 1)) /\ IsDigit(Ch(s, Len(s)))
  /\ \A i \in 1..(Len(s) - 1) : Ch(s, i) # "_" \/ Ch(s, i + 1) # "_"

\* the digits of s from its first digit that is not 0 on
Significant(s) ==
  IF \A i \in 1..Len(s) : Ch(s, i) \in {"0", "_"} THEN ""
  ELSE SubSeq(s, MinOf({i \in 1..Len(s) : Ch(s, i) \notin {"0", "_"}}), Len(s))

DigitCount(s) == Cardinality({i \in 1..Len(s) : IsDigit(Ch(s, i))})

\* the number the digits of s denote, for at most 9 digits (an exponent)
RECURSIVE DigitsVal(_)
DigitsVal(s) ==
  IF Len(s) = 0 THEN 0
  ELSE IF Ch(s, Len(s)) = "_" THEN DigitsVal(SubSeq(s, 1, Len(s) - 1))
  ELSE 10 * DigitsVal(SubSeq(s, 1, Len(s) - 1)) + DigitVal(Ch(s, Len(s)))

\* the number the digits of s from position lo to position hi denote, however
\* many: that of the left half, shifted by the digits of the right half, plus
\* that of the right half
RECURSIVE BigOfDigitsC(_, _, _)
BigOfDigitsC(s, lo, hi) ==
  IF lo > hi THEN <<>>
  ELSE IF lo = hi
    THEN IF Ch(s, lo) = "_" THEN <<>> ELSE BigOfInt(DigitVal(Ch(s, lo)))
  ELSE BigAdd(BigMul(BigOfDigitsC(s, lo, (lo + hi) \div 2),
                     BigPow10(DigitCount(SubSeq(s, (lo + hi) \div 2 + 1, hi)))),
              BigOfDigitsC(s, (lo + hi) \div 2 + 1, hi))

BigOfDigits(s) == BigOfDigitsC(s, 1, Len(s))

\* a Python int, which has no bound: its sign and its absolute value; zero is
\* positive
PyInt(sign, m) == [s |-> IF m = <<>> THEN 1 ELSE sign, big |-> m]

\* the Python int n, for an integer n of TLC
IntOfNum(n) == PyInt(IF n < 0 THEN -1 ELSE 1, BigOfInt(IF n < 0 THEN -n ELSE n))

\* the int a stripped literal t denotes: optional sign, digits; the interpreter
\* converts no more than 4300 digits (sys.int_info.default_max_str_digits)
IntLiteral(t, u) ==
  IF AllDigits(u) /\ DigitCount(u) <= 4300
  THEN [err |-> NoErr, val |-> PyInt(SignOf(t), BigOfDigits(u))]
  ELSE [err |-> "ValueError", val |-> IntOfNum(0)]

IntStripped(t) == IntLiteral(t, Unsigned(t))

\* int(s): optional sign and decimal digits, surrounding whitespace ignored;
\* anything else is a ValueError
int(s) == IntStripped(StripBlank(s))

\* the float nearest to the int n
FloatNearInt(n) == RoundBits(n.s, n.big, FALSE, 0)

\* float(n) of an int n, as the division of an int by a float converts it: an
\* int too large for a float raises
FloatOfInt(n) ==
  IF BigBitLen(n.big) > 1024 \/ FloatNearInt(n).k = "inf"
  THEN [err |-> "OverflowError", val |-> NaN]
  ELSE [err |-> NoErr, val |-> FloatNearInt(n)]

\* the float sign * digits * 10^x, for digits > 0; est is the number of
\* decimal digits of digits (or one more) plus x
FloatScaled(sign, digits, x, est) ==
  IF est > 312 THEN Inf(sign)
  ELSE IF est < -330 THEN Zero(sign)
  ELSE IF x >= 0 THEN DivRound(sign, BigMul(digits, BigPow10(x)), <<1>>, 0)
  ELSE DivRound(sign, digits, BigPow10(-x), 0)

\* the float sign * digits * 10^x
FloatDecimal(sign, digits, x) ==
  IF digits = <<>> THEN Zero(sign)
  ELSE FloatScaled(sign, digits, x, (BigBitLen(digits) * 30103) \div 100000 + 1 + x)

\* the float with sign sgn, integer digits ip, fraction digits fp and decimal
\* exponent x
FloatDigits(sgn, ip, fp, x) ==
  IF (ip = "" \/ AllDigits(ip)) /\ (fp = "" \/ AllDigits(fp)) /\ Len(ip) + Len(fp) > 0
  THEN [err |-> NoErr, val |-> FloatDecimal(sgn, BigOfDigits(ip \o fp), x - DigitCount(fp))]
  ELSE [err |-> "ValueError", val |-> NaN]

\* the float an unsigned literal u without exponent part, with its decimal
\* points at dots, denotes when multiplied by 10^x
FloatUnsigned(sgn, u, dots, x) ==
  IF dots = {} THEN FloatDigits(sgn, u, "", x)
  ELSE IF Cardinality(dots) = 1
       THEN FloatDigits(sgn, SubSeq(u, 1, MinOf(dots) - 1), SubSeq(u, MinOf(dots) + 1, Len(u)), x)
  ELSE [err |-> "ValueError", val |-> NaN]

FloatMantissa(sgn, u, x) == FloatUnsigned(sgn, u, {i \in 1..Len(u) : Ch(u, i) = "."}, x)

\* the value of an exponent part: optional sign and digits; beyond a million
\* it is a million, which makes the float infinite or zero as a larger does
ExponentVal(t) ==
  IF DigitCount(Significant(Unsigned(t))) > 6 THEN SignOf(t) * 1000000
  ELSE SignOf(t) * DigitsVal(Significant(Unsigned(t)))

\* the float of an unsigned literal with the letter e or E at the positions es
FloatExponent(sgn, u, es) ==
  IF es = {} THEN FloatMantissa(sgn, u, 0)
  ELSE IF Cardinality(es) = 1 /\ AllDigits(Unsigned(SubSeq(u, MinOf(es) + 1, Len(u))))
       THEN FloatMantissa(sgn, SubSeq(u, 1, MinOf(es) - 1),
                          ExponentVal(SubSeq(u, MinOf(es) + 1, Len(u))))
  ELSE [err |-> "ValueError", val |-> NaN]

\* c in lower case, for the letters of "infinity" and "nan"
Lower(c) ==
  CASE c = "I" -> "i" [] c = "N" -> "n" [] c = "F" -> "f" [] c = "T" -> "t"
    [] c = "Y" -> "y" [] c = "A" -> "a" [] OTHER -> c

\* u is the word w, in any case
IsWord(u, w) == Len(u) = Len(w) /\ \A i \in 1..Len(u) : Lower(Ch(u, i)) = Ch(w, i)

FloatSigned(sgn, u) ==
  IF IsWord(u, "inf") \/ IsWord(u, "infinity") THEN [err |-> NoErr, val |-> Inf(sgn)]
  ELSE IF IsWord(u, "nan") THEN [err |-> NoErr, val |-> NaN]
  ELSE FloatExponent(sgn, u, {i \in 1..Len(u) : Ch(u, i) \in {"e", "E"}})

FloatStripped(t) == FloatSigned(SignOf(t), Unsigned(t))

\* float(s): surrounding whitespace ignored; optional sign; then inf, infinity
\* or nan in any case, or decimal digits with at most one point, at least one
\* digit and an optional exponent; single underscores may separate digits;
\* anything else is a ValueError
float(s) == FloatStripped(StripBlank(s))

\* seq[i] with Python's 0-based index i >= 0: IndexError past the end
Index(seq, i) ==
  IF i + 1 <= Len(seq) THEN [err |-> NoErr, val |-> seq[i + 1]]
  ELSE [err |-> "IndexError", val |-> ""]

----------------------------------------------------------------------------
(* Evaluation of a dict literal whose values can raise *)

\* x[0] of a value that may already have raised
First(x) == IF x.err # NoErr THEN x ELSE Index(x.val, 0)

\* x.split() of a value that may already have raised
Words(x) == IF x.err # NoErr THEN x ELSE [err |-> NoErr, val |-> SplitWs(x.val)]

\* x.split('(')[1] of a value that may already have raised
AfterParen(x) == IF x.err # NoErr THEN x ELSE Index(Split(x.val, "("), 1)

\* parts[i].split()[0]
LeadTok(parts, i) == First(Words(Index(parts, i)))

\* parts[i].split('(')[1].split()[0]
ParenTok(parts, i) == First(Words(AfterParen(Index(parts, i))))

\* int(<token expression>)
IntOf(tok) == IF tok.err # NoErr THEN [err |-> tok.err, val |-> IntOfNum(0)] ELSE int(tok.val)

\* float(<token expression>)
FloatOf(tok) == IF tok.err # NoErr THEN [err |-> tok.err, val |-> NaN] ELSE float(tok.val)

\* the exception raised by the first entry, in source order, whose value raises
FirstErr(entries) ==
  LET bad == {i \in DOMAIN entries : entries[i][2].err # NoErr}
  IN  IF bad = {} THEN NoErr
      ELSE entries[CHOOSE i \in bad : \A j \in bad : i <= j][2].err

\* DictLiteral, had each parser kept the entries it had evaluated when one raised
DictLiteralPartial(entries) ==
  [err |-> NoErr,
   val |-> PyDict([k \in {entries[i][1] : i \in {j \in DOMAIN entries :
                                              \A h \in 1..j : entries[h][2].err = NoErr}} |->
                     entries[CHOOSE i \in DOMAIN entries : entries[i][1] = k][2].val])]

\* {key: value, ...}: the entries are evaluated in order; the dict exists only
\* if none raised
DictLiteral(entries) ==
  IF FirstErr(entries) # NoErr THEN [err |-> FirstErr(entries), val |-> PyNone]
  ELSE [err |-> NoErr,
        val |-> PyDict([k \in {entries[i][1] : i \in DOMAIN entries} |->
                          entries[CHOOSE i \in DOMAIN entries : entries[i][1] = k][2].val])]

\* x.split(',') of a value that may be None
SplitComma(x) ==
  IF x.tag = "str" THEN [err |-> NoErr, val |-> Split(x.v, ",")]
  ELSE [err |-> "AttributeError", val |-> <<>>]

----------------------------------------------------------------------------
(* The parsers *)

\* the dict literal of ProducerPerformanceService._worker.parse_stats
StatsDict(parts) ==
  DictLiteral(<<
    <<"records", IntOf(LeadTok(parts, 0))>>,
    <<"records_per_sec", FloatOf(LeadTok(parts, 1))>>,
    <<"mbps", FloatOf(ParenTok(parts, 1))>>,
    <<"latency_avg_ms", FloatOf(LeadTok(parts, 2))>>,
    <<"latency_max_ms", FloatOf(LeadTok(parts, 3))>>,
    <<"latency_50th_ms", FloatOf(LeadTok(parts, 4))>>,
    <<"latency_95th_ms", FloatOf(LeadTok(parts, 5))>>,
    <<"latency_99th_ms", FloatOf(LeadTok(parts, 6))>>,
    <<"latency_999th_ms", FloatOf(LeadTok(parts, 7))>> >>)

\* the exception of x passed on by a function that does not catch it
Raise(x) == [err |-> x.err, val |-> PyNone]

\* ProducerPerformanceService._worker.parse_stats
parse_stats(line) ==
  IF SplitComma(line).err # NoErr THEN Raise(SplitComma(line))
  ELSE StatsDict(SplitComma(line).val)

\* the dict literal of RestProducerPerformanceService._worker
RestProducerDict(parts) ==
  DictLiteral(<<
    <<"records", IntOf(LeadTok(parts, 0))>>,
    <<"records_per_sec", FloatOf(LeadTok(parts, 1))>>,
    <<"mbps", FloatOf(ParenTok(parts, 1))>>,
    <<"latency_avg_ms", FloatOf(LeadTok(parts, 2))>>,
    <<"latency_max_ms", FloatOf(LeadTok(parts, 3))>>,
    <<"latency_50th_ms", FloatOf(LeadTok(parts, 4))>>,
    <<"latency_95th_ms", FloatOf(LeadTok(parts, 5))>>,
    <<"latency_99th_ms", FloatOf(LeadTok(parts, 6))>>,
    <<"latency_999th_ms", FloatOf(LeadTok(parts, 7))>> >>)

\* the inline parser of RestProducerPerformanceService._worker
rest_producer_parse(last) ==
  IF SplitComma(last).err # NoErr THEN Raise(SplitComma(last))
  ELSE RestProducerDict(SplitComma(last).val)

\* the dict literal of ConsumerPerformanceService._worker
ConsumerDict(parts) ==
  DictLiteral(<<
    <<"total_mb", FloatOf(Index(parts, 3))>>,
    <<"mbps", FloatOf(Index(parts, 4))>>,
    <<"records_per_sec", FloatOf(Index(parts, 6))>> >>)

\* the inline parser of ConsumerPerformanceService._worker
consumer_parse(last) ==
  IF SplitComma(last).err # NoErr THEN Raise(SplitComma(last))
  ELSE ConsumerDict(SplitComma(last).val)

\* n / x of an int n and a float x: the int is converted to a float, which
\* raises when it is too large, and then divided, which raises when x is zero
IntDivFloat(n, x) ==
  IF FloatOfInt(n).err # NoErr THEN FloatOfInt(n) ELSE FloatDiv(FloatOfInt(n).val, x)

\* results['mbps'] * (results['records'] / results['records_per_sec']): the
\* product is not computed when the quotient raised
TotalMb(d) ==
  LET q == IntDivFloat(d["records"], d["records_per_sec"])
  IN  IF q.err # NoErr THEN q ELSE [err |-> NoErr, val |-> FloatMul(d["mbps"], q.val)]

\* the dict literal of parse_performance_output
SummaryDict(parts) ==
  DictLiteral(<<
    <<"records", IntOf(LeadTok(parts, 0))>>,
    <<"records_per_sec", FloatOf(LeadTok(parts, 1))>>,
    <<"mbps", FloatOf(ParenTok(parts, 1))>>,
    <<"latency_avg_ms", FloatOf(LeadTok(parts, 2))>>,
    <<"latency_max_ms", FloatOf(LeadTok(parts, 3))>>,
    <<"latency_50th_ms", FloatOf(LeadTok(parts, 4))>>,
    <<"latency_95th_ms", FloatOf(LeadTok(parts, 5))>>,
    <<"latency_99th_ms", FloatOf(LeadTok(parts, 6))>>,
    <<"latency_999th_ms", FloatOf(LeadTok(parts, 7))>> >>)

\* the dict d with results['total_mb'] = tm.val, results['rate_mbps'] and
\* results['rate_mps'] added, unless computing total_mb raised
WithTotal(d, tm) ==
  IF tm.err # NoErr THEN [err |-> tm.err, val |-> PyNone]
  ELSE [err |-> NoErr,
        val |-> PyDict([k \in DOMAIN d \cup {"total_mb", "rate_mbps", "rate_mps"} |->
                  CASE k = "total_mb" -> tm.val
                    [] k = "rate_mbps" -> d["mbps"]
                    [] k = "rate_mps" -> d["records_per_sec"]
                    [] OTHER -> d[k]])]

\* the three assignments that follow the dict literal
Derived(parsed) == WithTotal(parsed.v, TotalMb(parsed.v))

\* the body of parse_performance_output after summary.split(',')
SummaryOfParts(parts) ==
  IF SummaryDict(parts).err # NoErr THEN SummaryDict(parts)
  ELSE Derived(SummaryDict(parts).val)

\* parse_performance_output
parse_performance_output(summary) ==
  IF SplitComma(summary).err # NoErr THEN Raise(SplitComma(summary))
  ELSE SummaryOfParts(SplitComma(summary).val)

----------------------------------------------------------------------------
(* The run: one PerformanceService object, its caller and its worker threads *)

VARIABLES
  variant,             \* the class of the service object
  intermediate_stats,  \* ProducerPerformanceService.intermediate_stats
  requested,           \* the throughput and batch_size the constructor was given
  args,                \* self.args: its throughput and batch_size entries
  nodes,               \* self.nodes, the node list; a node is its 1-based number
  worker_threads,      \* self.worker_threads: unset, a list of thread ids, or None
  results,             \* self.results: unset, or the list of result slots
  stats,               \* self.stats: unset, or the list of sample sequences
  threads,             \* every thread spawned so far; a thread's id is its position
  caller,              \* the call the caller's thread is inside, its loop index,
                       \* and the line of performance.py it executes next
  outcome,             \* how the caller's most recent call ended
  freed                \* the nodes free() was called on, in call order

\* what the constructor sets and no method assigns
config == <<variant, intermediate_stats, requested, args, nodes>>

vars == <<config, worker_threads, results, stats, threads, caller, outcome, freed>>

\* the classes whose worker parses the last line of the stream as a summary
SummaryVariants == {"Producer", "RestProducer", "Consumer", "RestConsumer", "SchemaRegistry"}

\* a summary line of the producer tools, as ssh_capture yields it
ProducerLine ==
  "5 records, 2.5 records/sec (0.5 MB/sec), 1.0 ms avg, 9.0 ms max, 1 ms 50th, 2 ms 95th, 3 ms 99th, 4 ms 99.9th\n"

\* a summary line of kafka-consumer-perf-test
ConsumerLine == "t0, t1, 1, 2.0, 0.5, 5, 2.5\n"

\* the lines a remote command of a run may print
RunLines == {ProducerLine, ConsumerLine}

\* the fields of a summary line of the producer tools: the line is their
\* concatenation, separated by commas
ExampleFields ==
  <<"1000 records", " 500.0 records/sec (2.5 MB/sec)", " 10.0 ms avg", " 50.0 ms max",
    " 8.0 ms 50th", " 20.0 ms 95th", " 30.0 ms 99th", " 40.0 ms 99.9th">>

\* the fields of the summary line of a tool that sent nothing
ZeroRateFields ==
  <<"0 records", " 0.0 records/sec (0.0 MB/sec)", " 0.0 ms avg", " 0.0 ms max",
    " 0 ms 50th", " 0 ms 95th", " 0 ms 99th", " 0 ms 99.9th">>

\* the fields of a summary line whose numbers are no doubles, so that the
\* floats of its tokens and their product and quotient are rounded
RoundedFields ==
  <<"1 records", " 2.5 records/sec (0.1 MB/sec)", " 0.3 ms avg", " 0.7 ms max",
    " 1 ms 50th", " 2 ms 95th", " 3 ms 99th", " 4 ms 99.9th">>

\* the fields of a summary line with the other forms int() and float() accept
\* (digits separated by underscores, exponents, nan, infinity) and the other
\* whitespace split() separates tokens at (form feed, 0x1c, NEL, no-break space)
LiteralFields ==
  <<"1_000 records", " 5e2 records/sec (\f2.5 MB/sec)", " nan ms avg", " Infinity ms max",
    " 8.0ms 50th", " 2_0.0 ms 95th", " 3E1ms 99th", " 40. ms 99.9th">>

\* the first field of a summary line that counts 10^309 records, more than the
\* largest float
HugeRecords ==
  "1000000000000000000000000000000000000000000000000000000000000000000000000000000000000000000000000000000000000000000000000000000000000000000000000000000000000000000000000000000000000000000000000000000000000000000000000000000000000000000000000000000000000000000000000000000000000000000000000000000000000000000000 records"

\* a consumer summary line with the separator 0x1c after a number:
\* whitespace to split() and strip(), none to float()
SeparatorLine == "t0, t1, 1, 2.0, 0.5, 5, 2.5\n"

RECURSIVE JoinComma(_)
JoinComma(fs) ==
  IF Len(fs) = 0 THEN ""
  ELSE IF Len(fs) = 1 THEN fs[1]
  ELSE fs[1] \o "," \o JoinComma(Tail(fs))

\* the line of the first k of the fields fs, continued with other text when
\* fs has fewer
Truncated(fs, k) ==
  JoinComma([i \in 1..k |-> IF i <= Len(fs) THEN fs[i] ELSE " more"])

\* the line of the fields fs with field j replaced by f
WithField(fs, j, f) == JoinComma([fs EXCEPT ![j] = f])

\* the well-formed summary lines among the parser inputs
WellFormedInputs ==
  {Truncated(ExampleFields, k) : k \in Len(ExampleFields)..MaxFields}
    \cup {JoinComma(ZeroRateFields), JoinComma(RoundedFields), ProducerLine}
    \cup {WithField(ExampleFields, 1, HugeRecords)}

\* the lines the remote command prints in the runs that exercise the parsers:
\* summary lines, summary lines cut short, with a field that is not a number,
\* without the parenthesized group, and other output
ParseInputs ==
  WellFormedInputs
    \cup {Truncated(ExampleFields, k) : k \in 0..MaxFields}
    \cup {WithField(ExampleFields, j, " n/a") : j \in DOMAIN ExampleFields}
    \cup {WithField(ExampleFields, 2, " 500.0 records/sec"), ConsumerLine}
    \cup {JoinComma(LiteralFields), SeparatorLine}

N == Len(nodes)

\* the default number of messages a REST consumer request returns
MessagesPerRequest == 100

\* RestProducerThroughput, had the test been throughput >= 0
RestProducerThroughputZeroKept(throughput, batch_size) ==
  IF throughput >= 0 THEN throughput ELSE -batch_size

\* 'throughput': throughput if throughput > 0 else -batch_size
RestProducerThroughput(throughput, batch_size) ==
  IF throughput > 0 THEN throughput ELSE -batch_size

\* 'throughput': throughput if throughput > 0 else -100
RestConsumerThroughput(throughput) ==
  IF throughput > 0 THEN throughput ELSE -MessagesPerRequest

\* the throughput and batch_size entries of the self.args that the constructor
\* of class v builds from its parameters
MakeArgs(v, throughput, batch_size) ==
  CASE v = "RestProducer" ->
         [batch_size |-> batch_size,
          throughput |-> RestProducerThroughput(throughput, batch_size)]
    [] v = "RestConsumer" -> [throughput |-> RestConsumerThroughput(throughput)]
    [] v \in {"Producer", "Consumer"} -> [throughput |-> throughput]
    [] OTHER -> <<>>

\* the batch size and throughput that "cmd = ... % args" of class v formats
\* with %d into the command, in the order of the command line
CmdNumbers(v, a) ==
  CASE v = "RestProducer" -> <<a.batch_size, a.throughput>>
    [] v \in {"Producer", "RestConsumer"} -> <<a.throughput>>
    [] OTHER -> <<>>

\* the parameters the runs of the lifecycle specifications are constructed with
RunRequest == [throughput |-> -1, batch_size |-> 2]

Idle == [op |-> "idle", k |-> 0, at |-> 0]

\* the state after construction: the node list is there, and the attributes
\* that start() assigns do not exist yet
Init ==
  /\ variant \in SummaryVariants
  /\ intermediate_stats \in (IF variant = "Producer" THEN BOOLEAN ELSE {FALSE})
  /\ requested = RunRequest
  /\ args = MakeArgs(variant, requested.throughput, requested.batch_size)
  /\ \E n \in 1..(IF intermediate_stats THEN MaxSampledNodes ELSE MaxNodes) :
       nodes = [i \in 1..n |-> i]
  /\ worker_threads = PyUnset
  /\ results = PyUnset
  /\ stats = PyUnset
  /\ threads = <<>>
  /\ caller = Idle
  /\ outcome = [call |-> "none", err |-> NoErr]
  /\ freed = <<>>

----------------------------------------------------------------------------
(* start() *)

\* the first step of _worker in class v
FirstStage(v) ==
  CASE v = "Camus" -> "produce"
    [] v = "Hadoop" -> "confs"
    [] OTHER -> "main"

\* NewThread, had start() called self._worker(idx, node) itself and waited for it
NewThreadRunInline(idx, node) ==
  [idx |-> idx, node |-> node, state |-> "finished", last |-> PyNone,
   exc |-> NoErr, error_logged |-> FALSE,
   cmd |-> CmdNumbers(variant, args), stage |-> FirstStage(variant),
   line |-> PyNone, local_results |-> <<>>, ran |-> <<>>]

\* threading.Thread(target=self._worker, args=(idx, node)), started: the thread
\* with the worker's arguments and its local variables (cmd; last of the
\* summary classes; line and results of EndToEndLatencyService, the latter
\* here local_results),
\* the step it is at, the steps of a Camus or Hadoop worker it has completed
\* (ran), and how it ended
NewThread(idx, node) ==
  [idx |-> idx, node |-> node, state |-> "running", last |-> PyNone,
   exc |-> NoErr, error_logged |-> FALSE,
   cmd |-> CmdNumbers(variant, args), stage |-> FirstStage(variant),
   line |-> PyNone, local_results |-> <<>>, ran |-> <<>>]

\* start() is called, and has run up to line 23: self.worker_threads = [].
\* Nothing in start() looks at what an earlier call started; a call after the
\* first is followed as long as the calls spawn no more than cap threads in all.
StartCall(cap) ==
  /\ caller = Idle
  /\ (threads = <<>> \/ Len(threads) + N <= cap)
  /\ worker_threads' = PyList(<<>>)
  /\ caller' = [op |-> "start", k |-> 0, at |-> 24]
  /\ UNCHANGED <<config, results, stats, threads, outcome, freed>>

\* line 24: self.results = [None] * len(self.nodes)
StartResults ==
  /\ caller.op = "start"
  /\ caller.at = 24
  /\ results' = PyList([i \in 1..N |-> PyNone])
  /\ caller' = [caller EXCEPT !.at = 25]
  /\ UNCHANGED <<config, worker_threads, stats, threads, outcome, freed>>

\* line 25: self.stats = [[] for x in range(len(self.nodes))]; the loop over
\* enumerate(self.nodes, 1) is entered
StartStats ==
  /\ caller.op = "start"
  /\ caller.at = 25
  /\ stats' = PyList([i \in 1..N |-> <<>>])
  /\ caller' = [caller EXCEPT !.k = 1, !.at = 27]
  /\ UNCHANGED <<config, worker_threads, results, threads, outcome, freed>>

\* lines 27-34 of the iteration for node k: the thread is created and started;
\* worker.start() returns once the new thread runs
StartThread ==
  /\ caller.op = "start"
  /\ caller.at = 27
  /\ caller.k <= N
  /\ threads' = Append(threads, NewThread(caller.k, nodes[caller.k]))
  /\ caller' = [caller EXCEPT !.at = 35]
  /\ UNCHANGED <<config, worker_threads, results, stats, outcome, freed>>

\* line 35: self.worker_threads.append(worker), worker being the thread the
\* iteration has just started; then the next iteration
StartAppend ==
  /\ caller.op = "start"
  /\ caller.at = 35
  /\ worker_threads' = PyList(Append(worker_threads.v, Len(threads)))
  /\ caller' = [caller EXCEPT !.k = @ + 1, !.at = 27]
  /\ UNCHANGED <<config, results, stats, threads, outcome, freed>>

\* the loop has gone through the nodes: start() returns
StartReturn ==
  /\ caller.op = "start"
  /\ caller.at = 27
  /\ caller.k > N
  /\ caller' = Idle
  /\ outcome' = [call |-> "start", err |-> NoErr]
  /\ UNCHANGED <<config, worker_threads, results, stats, threads, freed>>

----------------------------------------------------------------------------
(* wait() *)

\* WaitError, had wait() looped over "self.worker_threads or []"
WaitErrorNoneAsEmpty(wt) == IF wt.tag = "unset" THEN "AttributeError" ELSE NoErr

\* what evaluating enumerate(self.worker_threads, 1) raises
WaitError(wt) ==
  CASE wt.tag = "unset" -> "AttributeError"
    [] wt.tag = "None" -> "TypeError"
    [] OTHER -> NoErr

\* the threads wait() goes through
JoinList(wt) == IF wt.tag = "list" THEN wt.v ELSE <<>>

\* wait() is called: it raises, or enters its loop over the worker threads
WaitCall ==
  /\ caller = Idle
  /\ IF WaitError(worker_threads) # NoErr
     THEN /\ outcome' = [call |-> "wait", err |-> WaitError(worker_threads)]
          /\ UNCHANGED caller
     ELSE /\ caller' = [op |-> "wait", k |-> 1, at |-> 39]
          /\ UNCHANGED outcome
  /\ UNCHANGED <<config, worker_threads, results, stats,
                 threads, freed>>

\* JoinReturns, had wait() not blocked on a running thread
JoinReturnsAtOnce(th) == TRUE

\* JoinReturns, had a thread that died of an exception never been joined
JoinReturnsUnlessDied(th) == th.state = "finished" /\ th.exc = NoErr

\* worker.join() returns only when the thread has finished, however it ended
JoinReturns(th) == th.state = "finished"

\* one iteration of wait()'s loop
WaitJoin ==
  /\ caller.op = "wait"
  /\ caller.k <= Len(JoinList(worker_threads))
  /\ JoinReturns(threads[JoinList(worker_threads)[caller.k]])
  /\ caller' = [caller EXCEPT !.k = @ + 1]
  /\ UNCHANGED <<config, worker_threads, results, stats,
                 threads, outcome, freed>>

\* after the loop: self.worker_threads = None, and wait() returns
WaitReturn ==
  /\ caller.op = "wait"
  /\ caller.k > Len(JoinList(worker_threads))
  /\ worker_threads' = PyNone
  /\ caller' = Idle
  /\ outcome' = [call |-> "wait", err |-> NoErr]
  /\ UNCHANGED <<config, results, stats, threads, freed>>

----------------------------------------------------------------------------
(* stop() *)

\* StopError, had stop() no assert
StopErrorNoAssert(wt) == IF wt.tag = "unset" THEN "AttributeError" ELSE NoErr

\* what stop() raises before its loop: reading the attribute, then the assert
StopError(wt) ==
  CASE wt.tag = "unset" -> "AttributeError"
    [] wt.tag # "None" -> "AssertionError"
    [] OTHER -> NoErr

\* stop() is called: it raises, or enters its loop over the nodes
StopCall ==
  /\ caller = Idle
  /\ IF StopError(worker_threads) # NoErr
     THEN /\ outcome' = [call |-> "stop", err |-> StopError(worker_threads)]
          /\ UNCHANGED caller
     ELSE /\ Len(freed) < MaxStops * N
          /\ caller' = [op |-> "stop", k |-> 1, at |-> 47]
          /\ UNCHANGED outcome
  /\ UNCHANGED <<config, worker_threads, results, stats,
                 threads, freed>>

\* the node the k-th iteration of stop()'s loop releases
StopNode(k) == nodes[k]

\* one iteration of stop()'s loop: node.free()
StopFree ==
  /\ caller.op = "stop"
  /\ caller.k <= N
  /\ freed' = Append(freed, StopNode(caller.k))
  /\ caller' = [caller EXCEPT !.k = @ + 1]
  /\ UNCHANGED <<config, worker_threads, results, stats,
                 threads, outcome>>

\* stop() returns
StopReturn ==
  /\ caller.op = "stop"
  /\ caller.k > N
  /\ caller' = Idle
  /\ outcome' = [call |-> "stop", err |-> NoErr]
  /\ UNCHANGED <<config, worker_threads, results, stats,
                 threads, freed>>

----------------------------------------------------------------------------
(* _worker(idx, node) of the classes that parse a summary line *)

\* the parse a class's worker applies to the last line after the stream ended
FinalParse(v, last) ==
  CASE v = "Producer" -> parse_stats(last)
    [] v = "RestProducer" -> rest_producer_parse(last)
    [] v = "Consumer" -> consumer_parse(last)
    [] v = "RestConsumer" -> parse_performance_output(last)
    [] v = "SchemaRegistry" -> parse_performance_output(last)

\* whether the class's worker wraps that parse in try/except
CatchesFinalError(v) == v = "Producer"

\* the values the worker's variable last can hold
LastValues == {PyNone} \cup {PyStr(l) : l \in RunLines \cup ParseInputs}

\* FinalParse and parse_stats, tabulated over the lines of the model (@@ makes
\* the tables explicit, so that they are computed once)
FinalParseOf ==
  [v \in SummaryVariants |-> [l \in LastValues |-> FinalParse(v, l)] @@ <<>>] @@ <<>>

SampleOf == [l \in RunLines \cup ParseInputs |-> parse_stats(PyStr(l))] @@ <<>>

\* SlotOf, had the worker indexed with idx instead of idx-1 (modulo the length)
SlotOfNoOffset(idx) == (idx % N) + 1

\* the position of self.results[idx-1] and self.stats[idx-1] in a 1-based sequence
SlotOf(idx) == idx

\* lst[idx-1] = val
SetSlot(lst, idx, val) == PyList([lst.v EXCEPT ![SlotOf(idx)] = val])

\* AppendSlot, had start() built self.stats as [[]] * n: every slot is the same list
AppendSlotAliased(lst, idx, val) == PyList([i \in DOMAIN lst.v |-> Append(lst.v[i], val)])

\* lst[idx-1].append(val)
AppendSlot(lst, idx, val) == PyList([lst.v EXCEPT ![SlotOf(idx)] = Append(@, val)])

\* TrySample, had a line that does not parse been recorded as a None sample
TrySampleNoneOnFailure(idx, r) ==
  /\ Len(stats.v[SlotOf(idx)]) < MaxSamples
  /\ stats' = AppendSlot(stats, idx, IF r.err = NoErr THEN r.val ELSE PyNone)

\* try: self.stats[idx-1].append(parse_stats(line)) / except: pass, r being
\* the result of parse_stats(line)
TrySample(idx, r) ==
  IF r.err = NoErr
  THEN /\ Len(stats.v[SlotOf(idx)]) < MaxSamples
       /\ stats' = AppendSlot(stats, idx, r.val)
  ELSE UNCHANGED stats

\* ReadLine, had the worker parsed every line as it arrived and stored the
\* record of each line that parses
ReadLineStoresEach(t, line) ==
  /\ threads[t].state = "running"
  /\ IF variant = "Producer" /\ intermediate_stats
     THEN TrySample(threads[t].idx, SampleOf[line])
     ELSE UNCHANGED stats
  /\ threads' = [threads EXCEPT ![t].last = PyStr(line)]
  /\ results' = IF FinalParseOf[variant][PyStr(line)].err = NoErr
                THEN SetSlot(results, threads[t].idx, FinalParseOf[variant][PyStr(line)].val)
                ELSE results
  /\ UNCHANGED <<config, worker_threads, caller, outcome, freed>>

\* one iteration of "for line in node.account.ssh_capture(cmd)"
ReadLine(t, line) ==
  /\ threads[t].state = "running"
  /\ IF variant = "Producer" /\ intermediate_stats
     THEN TrySample(threads[t].idx, SampleOf[line])
     ELSE UNCHANGED stats
  /\ threads' = [threads EXCEPT ![t].last = PyStr(line)]
  /\ UNCHANGED <<config, worker_threads, results,
                 caller, outcome, freed>>

\* the thread after the code that follows the loop, given the parse's result
Finished(th, r) ==
  IF r.err = NoErr THEN [th EXCEPT !.state = "finished"]
  ELSE IF CatchesFinalError(variant)
       THEN [th EXCEPT !.state = "finished", !.error_logged = TRUE]
  ELSE [th EXCEPT !.state = "finished", !.exc = r.err]

\* the code after the loop, r being the result of parsing last: the record is
\* stored in the worker's slot if the parse worked, and the thread ends
AfterLoop(t, r) ==
  /\ results' = IF r.err = NoErr THEN SetSlot(results, threads[t].idx, r.val) ELSE results
  /\ threads' = [threads EXCEPT ![t] = Finished(@, r)]

\* the stream ends: the loop is left and the last line is parsed
EndOfStream(t) ==
  /\ threads[t].state = "running"
  /\ AfterLoop(t, FinalParseOf[variant][threads[t].last])
  /\ UNCHANGED <<config, worker_threads, stats,
                 caller, outcome, freed>>

\* the thread after ssh_capture raised inside the loop header
Failed(th) == [th EXCEPT !.state = "finished", !.exc = "TransportError"]

\* AfterFailure, had one worker's failure ended its siblings too
AfterFailureEndsAll(ths, t) ==
  [u \in DOMAIN ths |-> IF ths[u].state = "running" THEN Failed(ths[u]) ELSE ths[u]]

\* the threads after the exception left thread t's _worker: it ends that
\* thread and no other
AfterFailure(ths, t) == [ths EXCEPT ![t] = Failed(@)]

\* the remote channel fails: the exception leaves _worker and ends the thread
TransportFailure(t) ==
  /\ threads[t].state = "running"
  /\ threads' = AfterFailure(threads, t)
  /\ UNCHANGED <<config, worker_threads, results, stats,
                 caller, outcome, freed>>

----------------------------------------------------------------------------
(* The specification of a service object: the caller calls start(), wait()  *)
(* and stop() in any order and any number of times, one call at a time, and  *)
(* the worker threads run beside it                                          *)

Next ==
  \/ StartCall(MaxThreads)
  \/ StartResults
  \/ StartStats
  \/ StartThread
  \/ StartAppend
  \/ StartReturn
  \/ WaitCall
  \/ WaitJoin
  \/ WaitReturn
  \/ StopCall
  \/ StopFree
  \/ StopReturn
  \/ \E t \in DOMAIN threads : \E line \in RunLines : ReadLine(t, line)
  \/ \E t \in DOMAIN threads : EndOfStream(t)
  \/ \E t \in DOMAIN threads : TransportFailure(t)

Spec == Init /\ [][Next]_vars

\* The caller's thread is scheduled: a join whose thread has finished returns,
\* and wait() goes on to its last statement.  Nothing is assumed of the workers.
\* These runs are constructed with at most MaxFairNodes nodes.
FairInit == Init /\ Len(nodes) <= MaxFairNodes

FairSpec == FairInit /\ [][Next]_vars /\ WF_vars(WaitJoin) /\ WF_vars(WaitReturn)

----------------------------------------------------------------------------
(* EndToEndLatencyService *)

\* lines kafka.tools.TestEndToEndLatency may print: the two marker lines, with
\* and without a unit after the percentiles, with other values, with numbers
\* in the other forms float() accepts, with a token that is no number, cut
\* short, and other output
LatencyLines ==
  {"Avg latency: 12.3 ms",
   "Avg latency: 7.5 ms\n",
   "Avg latency: 1.23E1ms\n",
   "Avg latency: n/a ms\n",
   "Avg latency:\n",
   "Percentiles: 50th = 10.0ms, 99th = 30.0ms, 99.9th = 40.0",
   "Percentiles: 50th = 10.0, 99th = 30.0, 99.9th = 40.0",
   "Percentiles: 50th = 1, 99th = 2, 99.9th = 3\n",
   "Percentiles: 50th = 1_0, 99th = nan, 99.9th = 4e1\n",
   "Percentiles: 50th = 1, 99th = x, 99.9th = 3\n",
   "0 messages\n"}

\* line.split()[i]
Tok(line, i) == Index(SplitWs(line), i)

\* x[:-1] of a value that may already have raised
WithoutLast(x) == IF x.err # NoErr THEN x ELSE [err |-> NoErr, val |-> DropLast(x.val)]

\* d[key] = v
SetKey(d, key, v) == [k \in DOMAIN d \cup {key} |-> IF k = key THEN v ELSE d[k]]

\* Assign, had the worker kept the value of the first occurrence of a marker
\* (results.setdefault(key, f))
AssignKeepFirst(acc, key, f) ==
  IF acc.err # NoErr THEN acc
  ELSE IF f.err # NoErr THEN [err |-> f.err, val |-> acc.val]
  ELSE IF key \in DOMAIN acc.val THEN acc
  ELSE [err |-> NoErr, val |-> SetKey(acc.val, key, f.val)]

\* results[key] = f, f being the result of the float(...) on the right-hand
\* side; acc is the dict so far, and the exception raised so far if any
Assign(acc, key, f) ==
  IF acc.err # NoErr THEN acc
  ELSE IF f.err # NoErr THEN [err |-> f.err, val |-> acc.val]
  ELSE [err |-> NoErr, val |-> SetKey(acc.val, key, f.val)]

\* float(line.split()[i]) for i = 2 and i = 9, tabulated over the lines of the model
FloatTokOf ==
  [l \in LatencyLines |-> [i \in {2, 9} |-> FloatOf(Tok(l, i))] @@ <<>>] @@ <<>>

\* if line.startswith("Avg latency:"): results['latency_avg_ms'] = float(line.split()[2])
AvgStep(acc, line) ==
  IF StartsWith(line, "Avg latency:")
  THEN Assign(acc, "latency_avg_ms", FloatTokOf[line][2])
  ELSE acc

\* TokBeforeComma, had the worker also removed a unit that precedes the comma
TokWithoutUnit(line, i) ==
  IF Tok(line, i).err = NoErr /\ Len(Tok(line, i).val) >= 3
       /\ SubSeq(Tok(line, i).val, Len(Tok(line, i).val) - 2, Len(Tok(line, i).val)) = "ms,"
  THEN [err |-> NoErr, val |-> SubSeq(Tok(line, i).val, 1, Len(Tok(line, i).val) - 3)]
  ELSE WithoutLast(Tok(line, i))

\* line.split()[i][:-1]
TokBeforeComma(line, i) == WithoutLast(Tok(line, i))

\* float(line.split()[i][:-1]) for i = 3 and i = 6, tabulated likewise
FloatBeforeCommaOf ==
  [l \in LatencyLines |-> [i \in {3, 6} |-> FloatOf(TokBeforeComma(l, i))] @@ <<>>] @@ <<>>

\* if line.startswith("Percentiles"): the three assignments, in order
PercentilesStep(acc, line) ==
  IF StartsWith(line, "Percentiles")
  THEN Assign(Assign(Assign(acc,
                "latency_50th_ms", FloatBeforeCommaOf[line][3]),
                "latency_99th_ms", FloatBeforeCommaOf[line][6]),
                "latency_999th_ms", FloatTokOf[line][9])
  ELSE acc

\* the body of the loop: the local dict results after it, or the exception
LineStep(d, line) == PercentilesStep(AvgStep([err |-> NoErr, val |-> d], line), line)

\* the thread after an iteration whose result is r
AfterLine(th, line, r) ==
  IF r.err = NoErr THEN [th EXCEPT !.line = PyStr(line), !.local_results = r.val]
  ELSE [th EXCEPT !.line = PyStr(line), !.local_results = r.val,
                  !.state = "finished", !.exc = r.err]

\* one iteration of "for line in node.account.ssh_capture(cmd)"
LatencyReadLine(t, line) ==
  /\ threads[t].state = "running"
  /\ threads' = [threads EXCEPT ![t] = AfterLine(@, line, LineStep(@.local_results, line))]
  /\ UNCHANGED <<config, worker_threads, results, stats, caller, outcome, freed>>

\* the stream ends: self.results[idx-1] = results
LatencyEnd(t) ==
  /\ threads[t].state = "running"
  /\ results' = SetSlot(results, threads[t].idx, PyDict(threads[t].local_results))
  /\ threads' = [threads EXCEPT ![t].state = "finished"]
  /\ UNCHANGED <<config, worker_threads, stats, caller, outcome, freed>>

LatencyInit ==
  /\ variant = "EndToEndLatency"
  /\ intermediate_stats = FALSE
  /\ requested = RunRequest
  /\ args = MakeArgs(variant, requested.throughput, requested.batch_size)
  /\ \E n \in 1..MaxLatencyNodes : nodes = [i \in 1..n |-> i]
  /\ worker_threads = PyUnset
  /\ results = PyUnset
  /\ stats = PyUnset
  /\ threads = <<>>
  /\ caller = Idle
  /\ outcome = [call |-> "none", err |-> NoErr]
  /\ freed = <<>>

LatencyNext ==
  \/ StartCall(MaxLatencyThreads)
  \/ StartResults
  \/ StartStats
  \/ StartThread
  \/ StartAppend
  \/ StartReturn
  \/ WaitCall
  \/ WaitJoin
  \/ WaitReturn
  \/ StopCall
  \/ StopFree
  \/ StopReturn
  \/ \E t \in DOMAIN threads : \E line \in LatencyLines : LatencyReadLine(t, line)
  \/ \E t \in DOMAIN threads : LatencyEnd(t)
  \/ \E t \in DOMAIN threads : TransportFailure(t)

LatencySpec == LatencyInit /\ [][LatencyNext]_vars

----------------------------------------------------------------------------
(* CamusPerformanceService and HadoopPerformanceService *)

\* the classes whose worker runs several steps and stores no result
StagedVariants == {"Camus", "Hadoop"}

\* the statements of _worker in class v that act on the node, in program
\* order: "produce" is the loop over ssh_capture(produce_cmd), "confs" the calls
\* distribute_hdfs_confs and distribute_mr1_confs or distribute_yarn_confs,
\* "props" create_camus_props, "main" the loop over ssh_capture(cmd)
StageOrder(v) ==
  IF v = "Camus" THEN <<"produce", "confs", "props", "main">>
  ELSE <<"confs", "main">>

\* the steps that are loops over the output of a remote command
StreamStages == {"produce", "main"}

\* NextStage, had the Camus worker written the properties file before it
\* distributed the configuration
NextStagePropsFirst(v, done) ==
  IF Len(done) >= Len(StageOrder(v)) THEN "end"
  ELSE IF v = "Camus" THEN <<"produce", "props", "confs", "main">>[Len(done) + 1]
  ELSE StageOrder(v)[Len(done) + 1]

\* the step that follows the completed steps done; "end" after the last
NextStage(v, done) ==
  IF Len(done) < Len(StageOrder(v)) THEN StageOrder(v)[Len(done) + 1] ELSE "end"

\* the thread after its current step returned
StageDone(v, th) ==
  [th EXCEPT !.ran = Append(@, th.stage),
             !.stage = NextStage(v, Append(th.ran, th.stage)),
             !.state = IF NextStage(v, Append(th.ran, th.stage)) = "end"
                       THEN "finished" ELSE "running"]

\* one iteration of a loop over ssh_capture: the line is logged
StageReadLine(t, line) ==
  /\ threads[t].state = "running"
  /\ threads[t].stage \in StreamStages
  /\ threads' = [threads EXCEPT ![t].line = PyStr(line)]
  /\ UNCHANGED <<config, worker_threads, results, stats, caller, outcome, freed>>

\* the stream of the step's command ends: the loop is left
StageEndOfStream(t) ==
  /\ threads[t].state = "running"
  /\ threads[t].stage \in StreamStages
  /\ threads' = [threads EXCEPT ![t] = StageDone(variant, @)]
  /\ UNCHANGED <<config, worker_threads, results, stats, caller, outcome, freed>>

\* the calls of a step that is no loop return
StageCall(t) ==
  /\ threads[t].state = "running"
  /\ threads[t].stage \notin StreamStages
  /\ threads' = [threads EXCEPT ![t] = StageDone(variant, @)]
  /\ UNCHANGED <<config, worker_threads, results, stats, caller, outcome, freed>>

StagedInit ==
  /\ variant \in StagedVariants
  /\ intermediate_stats = FALSE
  /\ requested = RunRequest
  /\ args = MakeArgs(variant, requested.throughput, requested.batch_size)
  /\ \E n \in 1..MaxStagedNodes : nodes = [i \in 1..n |-> i]
  /\ worker_threads = PyUnset
  /\ results = PyUnset
  /\ stats = PyUnset
  /\ threads = <<>>
  /\ caller = Idle
  /\ outcome = [call |-> "none", err |-> NoErr]
  /\ freed = <<>>

\* the steps of a Camus or Hadoop run; TransportFailure is an exception raised
\* by the step a worker is at, whichever it is
StagedNext ==
  \/ StartCall(MaxStagedThreads)
  \/ StartResults
  \/ StartStats
  \/ StartThread
  \/ StartAppend
  \/ StartReturn
  \/ WaitCall
  \/ WaitJoin
  \/ WaitReturn
  \/ StopCall
  \/ StopFree
  \/ StopReturn
  \/ \E t \in DOMAIN threads : \E line \in RunLines : StageReadLine(t, line)
  \/ \E t \in DOMAIN threads : StageEndOfStream(t)
  \/ \E t \in DOMAIN threads : StageCall(t)
  \/ \E t \in DOMAIN threads : TransportFailure(t)

StagedSpec == StagedInit /\ [][StagedNext]_vars

----------------------------------------------------------------------------
(* The REST services, constructed with every throughput and batch size *)

ConstructInit ==
  /\ variant \in {"RestProducer", "RestConsumer"}
  /\ intermediate_stats = FALSE
  /\ requested \in [throughput : (-MaxThroughput)..MaxThroughput, batch_size : 1..MaxBatchSize]
  /\ args = MakeArgs(variant, requested.throughput, requested.batch_size)
  /\ \E n \in 1..MaxCommandNodes : nodes = [i \in 1..n |-> i]
  /\ worker_threads = PyUnset
  /\ results = PyUnset
  /\ stats = PyUnset
  /\ threads = <<>>
  /\ caller = Idle
  /\ outcome = [call |-> "none", err |-> NoErr]
  /\ freed = <<>>

ConstructNext ==
  \/ StartCall(MaxCommandThreads)
  \/ StartResults
  \/ StartStats
  \/ StartThread
  \/ StartAppend
  \/ StartReturn
  \/ WaitCall
  \/ WaitJoin
  \/ WaitReturn
  \/ StopCall
  \/ StopFree
  \/ StopReturn
  \/ \E t \in DOMAIN threads : \E line \in RunLines : ReadLine(t, line)
  \/ \E t \in DOMAIN threads : EndOfStream(t)
  \/ \E t \in DOMAIN threads : TransportFailure(t)

ConstructSpec == ConstructInit /\ [][ConstructNext]_vars

----------------------------------------------------------------------------
(* Runs whose streams are drawn from the parser inputs *)

\* a run of any summary class; one that samples has one node
ParseInit ==
  /\ variant \in SummaryVariants
  /\ intermediate_stats \in (IF variant = "Producer" THEN BOOLEAN ELSE {FALSE})
  /\ requested = RunRequest
  /\ args = MakeArgs(variant, requested.throughput, requested.batch_size)
  /\ \E n \in 1..(IF intermediate_stats THEN 1 ELSE MaxParseNodes) :
       nodes = [i \in 1..n |-> i]
  /\ worker_threads = PyUnset
  /\ results = PyUnset
  /\ stats = PyUnset
  /\ threads = <<>>
  /\ caller = Idle
  /\ outcome = [call |-> "none", err |-> NoErr]
  /\ freed = <<>>

\* the steps of these runs: the service is started once (the calls spawn N
\* threads in all); Next has the runs that start it again
ParseNext ==
  \/ StartCall(N)
  \/ StartResults
  \/ StartStats
  \/ StartThread
  \/ StartAppend
  \/ StartReturn
  \/ WaitCall
  \/ WaitJoin
  \/ WaitReturn
  \/ StopCall
  \/ StopFree
  \/ StopReturn
  \/ \E t \in DOMAIN threads : \E line \in ParseInputs : ReadLine(t, line)
  \/ \E t \in DOMAIN threads : EndOfStream(t)
  \/ \E t \in DOMAIN threads : TransportFailure(t)

ParseSpec == ParseInit /\ [][ParseNext]_vars

----------------------------------------------------------------------------
(* Vocabulary of the properties *)

AllFinished == \A t \in DOMAIN threads : threads[t].state = "finished"

\* how many threads the start() call in progress has spawned so far; when no
\* start() is in progress, how many the latest one spawned
SpawnedCount ==
  IF caller.op = "start"
  THEN (IF caller.at = 35 THEN caller.k ELSE IF caller.at = 27 THEN caller.k - 1 ELSE 0)
  ELSE IF threads = <<>> THEN 0 ELSE N

\* those threads: the last ones spawned
LastStarted == {t \in DOMAIN threads : t > Len(threads) - SpawnedCount}

\* start() has been called at most once on the object: every thread is one of
\* that call
OneStart == Len(threads) = SpawnedCount

WaitOk == [call |-> "wait", err |-> NoErr]

StopOk == [call |-> "stop", err |-> NoErr]

\* what parsing the thread's last line gives in this run
RecordOf(th) == FinalParseOf[variant][th.last]

\* the 9 canonical fields of a metrics record
CanonicalFields ==
  {"records", "records_per_sec", "mbps", "latency_avg_ms", "latency_max_ms",
   "latency_50th_ms", "latency_95th_ms", "latency_99th_ms", "latency_999th_ms"}

\* the fields parse_performance_output derives
DerivedFields == {"total_mb", "rate_mbps", "rate_mps"}

\* the number of comma-separated fields of a line
FieldCount(line) == Cardinality({i \in 1..Len(line) : Ch(line, i) = ","}) + 1

\* the classes whose worker parses with parse_stats or parse_performance_output
CanonicalVariants == {"Producer", "RestConsumer", "SchemaRegistry"}

\* the input lines with fewer than 8 fields
ShortInputs == {l \in ParseInputs : FieldCount(l) < 8}

\* the thread ended by returning from _worker
Returned(th) == th.state = "finished" /\ th.exc = NoErr

\* the thread ended by the exception of the remote channel
Broke(th) == th.state = "finished" /\ th.exc = "TransportError"

\* a step in which no thread other than the workers of node j, and not the
\* caller, did anything
OnlyWorkerOf(j) ==
  /\ caller' = caller
  /\ outcome' = outcome
  /\ freed' = freed
  /\ worker_threads' = worker_threads
  /\ \A u \in DOMAIN threads : threads[u].idx # j => threads'[u] = threads[u]

----------------------------------------------------------------------------
(* Properties *)

\* C1: free() is called only inside stop(), and only once the wait() that
\* followed the latest start() has returned (worker_threads is None and every
\* worker of that start() has finished); no step of a worker releases a node.
C1_FreeOnlyInStopAfterWait ==
  [][freed' # freed =>
       /\ caller.op = "stop"
       /\ worker_threads = PyNone
       /\ LastStarted # {}
       /\ \A t \in LastStarted : threads[t].state = "finished"
       /\ threads' = threads]_vars

\* a run of at least two nodes whose nodes were all released, one worker having
\* died of an exception and another having returned
C1_Witness ==
  /\ N >= 2
  /\ Len(freed) = N
  /\ \E t \in DOMAIN threads : threads[t].exc # NoErr
  /\ \E t \in DOMAIN threads : Returned(threads[t])

\* C2: wait() is a barrier: once it has returned every worker that the
\* preceding start() spawned has finished, and while it runs it has not got
\* past a worker that is still running (so it does not return while a worker's
\* stream has not ended).
C2_WaitIsBarrier ==
  /\ worker_threads = PyNone =>
       /\ Cardinality(LastStarted) = N
       /\ \A t \in LastStarted : threads[t].state = "finished"
  /\ caller.op = "wait" =>
       \A j \in 1..(caller.k - 1) : threads[worker_threads.v[j]].state = "finished"

\* wait() has returned from a run of at least two workers that ended differently
C2_Witness ==
  /\ N >= 2
  /\ outcome = WaitOk
  /\ worker_threads = PyNone
  /\ \E t \in DOMAIN threads : Broke(threads[t])
  /\ \E t \in DOMAIN threads : Returned(threads[t])

\* C3: with the caller's thread scheduled, a wait() that is in progress when
\* every worker has finished, however each ended, returns normally.
C3_WaitReturns ==
  (caller.op = "wait" /\ AllFinished)
    ~> (caller = Idle /\ outcome = WaitOk /\ worker_threads = PyNone)

\* wait() returned normally although one worker died of a transport failure
\* and another of a parse failure
C3_Witness ==
  /\ outcome = WaitOk
  /\ \E t \in DOMAIN threads : Broke(threads[t])
  /\ \E t \in DOMAIN threads :
       threads[t].state = "finished" /\ threads[t].exc \notin {NoErr, "TransportError"}

\* the slots of the workers of a run that have ended: unset for a worker whose
\* channel failed, the record of its own last line for a worker that returned
\* and whose last line parses
C4_Slots ==
  (OneStart /\ results.tag = "list") =>
    \A t \in DOMAIN threads :
      /\ Broke(threads[t]) => results.v[threads[t].idx] = PyNone
      /\ (Returned(threads[t]) /\ RecordOf(threads[t]).err = NoErr)
           => results.v[threads[t].idx] = RecordOf(threads[t]).val

\* a step in which a worker's channel fails changes nothing but that worker
C4_FailureIsLocal ==
  \A t \in DOMAIN threads :
    (threads[t].state = "running" /\ t \in DOMAIN threads' /\ Broke(threads'[t])) =>
      /\ \A u \in DOMAIN threads \ {t} : threads'[u] = threads[u]
      /\ UNCHANGED <<results, stats, caller, outcome, freed, worker_threads>>

\* C4: worker failures are isolated: a transport failure ends only the worker
\* it happens in; the failed worker's slot stays unset and every worker that
\* reaches the end of its stream stores the record of its own last line.
C4_FailuresIsolated == []C4_Slots /\ [][C4_FailureIsLocal]_vars

\* three nodes, wait() returned, exactly one channel failed at first
\* consumption, the other two workers stored their records
C4_Witness ==
  /\ N = 3
  /\ outcome = WaitOk
  /\ \E t \in DOMAIN threads :
       /\ Broke(threads[t]) /\ threads[t].last = PyNone
       /\ results.v[threads[t].idx] = PyNone
       /\ \A u \in DOMAIN threads \ {t} :
            Returned(threads[u]) /\ results.v[threads[u].idx].tag = "dict"

\* C5: from the moment start() has made them there are exactly N result slots
\* and N sample sequences, both made before the first worker is spawned, and
\* worker idx is bound to node idx of the node list; in a run a slot is unset
\* until the worker of the same index has returned, and then holds the record
\* of that worker's last line (so all are unset right after start() made them).
C5_SlotsAligned ==
  /\ results.tag = "list" => Len(results.v) = N
  /\ stats.tag = "list" => Len(stats.v) = N
  /\ threads # <<>> => (results.tag = "list" /\ stats.tag = "list")
  /\ \A t \in DOMAIN threads : threads[t].node = nodes[threads[t].idx]
  /\ (OneStart /\ results.tag = "list") =>
       \A i \in 1..N :
         \/ results.v[i] = PyNone
         \/ \E t \in DOMAIN threads :
              /\ threads[t].idx = i
              /\ Returned(threads[t])
              /\ RecordOf(threads[t]).err = NoErr
              /\ results.v[i] = RecordOf(threads[t]).val

\* wait() returned from a run in which one slot is still unset and another
\* holds a record
C5_Witness ==
  /\ outcome = WaitOk
  /\ \E i \in 1..N : results.v[i] = PyNone
  /\ \E i \in 1..N : results.v[i].tag = "dict"

\* C6: in a run (start() called once) a result slot changes only once, from
\* unset, in the step in which the worker of its own node ends, and a sample
\* sequence only grows, in a step of the worker of its own node; such a step
\* changes no other slot.
C6_SlotOwnership ==
  [][(OneStart' /\ results.tag = "list" /\ stats.tag = "list") =>
       \A j \in 1..N :
         /\ results'.v[j] # results.v[j] =>
              /\ results.v[j] = PyNone
              /\ OnlyWorkerOf(j)
              /\ \E t \in DOMAIN threads :
                   /\ threads[t].idx = j
                   /\ threads[t].state = "running"
                   /\ threads'[t].state = "finished"
              /\ \A i \in 1..N \ {j} : results'.v[i] = results.v[i] /\ stats'.v[i] = stats.v[i]
         /\ stats'.v[j] # stats.v[j] =>
              /\ OnlyWorkerOf(j)
              /\ Len(stats'.v[j]) = Len(stats.v[j]) + 1
              /\ SubSeq(stats'.v[j], 1, Len(stats.v[j])) = stats.v[j]
              /\ \A i \in 1..N \ {j} : stats'.v[i] = stats.v[i]
              /\ results' = results]_vars

\* two workers that sample have each appended a sample and stored a record
C6_Witness ==
  /\ intermediate_stats
  /\ N >= 2
  /\ OneStart
  /\ results.tag = "list"
  /\ stats.tag = "list"
  /\ \A i \in 1..2 : results.v[i].tag = "dict" /\ Len(stats.v[i]) >= 1

\* C7: a stop() called before wait() has returned (never started, or started
\* and not waited) raises before its loop: it never enters the loop, releases
\* nothing and leaves the lists and the threads as they were; once started,
\* what it raises is the AssertionError.
C7_StopBeforeWaitFails ==
  [][(caller = Idle /\ worker_threads # PyNone) =>
       /\ caller'.op # "stop"
       /\ freed' = freed
       /\ (outcome' # outcome /\ outcome'.call = "stop") =>
            /\ outcome'.err = (IF worker_threads.tag = "list" THEN "AssertionError"
                               ELSE "AttributeError")
            /\ UNCHANGED <<results, stats, threads, worker_threads, caller>>]_vars

\* stop() failed its assertion while a worker was running and another had
\* already stored its record; nothing has been released
C7_Witness ==
  /\ outcome = [call |-> "stop", err |-> "AssertionError"]
  /\ freed = <<>>
  /\ \E t \in DOMAIN threads : threads[t].state = "running"
  /\ \E i \in 1..N : results.v[i].tag = "dict"

\* C8: each node is released at most once over the calls made on a run, and a
\* stop() that has returned has released node 1, ..., node N in that order,
\* each once.
C8_EachNodeFreedOnce ==
  /\ \A n \in 1..N : Cardinality({i \in DOMAIN freed : freed[i] = n}) <= 1
  /\ (caller = Idle /\ outcome = StopOk) => freed = nodes

\* C9: a wait() called when wait() has already returned raises (the TypeError
\* of iterating None) instead of returning normally; it changes no slot, no
\* thread and not worker_threads, releases nothing, and stop() would still
\* pass its assertion afterwards.
C9_SecondWaitFails ==
  [][(caller = Idle /\ worker_threads = PyNone
        /\ (caller'.op = "wait" \/ (outcome' # outcome /\ outcome'.call = "wait"))) =>
       /\ outcome' = [call |-> "wait", err |-> "TypeError"]
       /\ UNCHANGED <<results, stats, threads, worker_threads, caller, freed>>
       /\ StopError(worker_threads') = NoErr]_vars

\* a second wait() has failed; a slot holds its record and nothing was released
C9_Witness ==
  /\ outcome = [call |-> "wait", err |-> "TypeError"]
  /\ freed = <<>>
  /\ \E i \in 1..N : results.v[i].tag = "dict"

\* C10: in every class that parses a summary line, a worker whose stream ended
\* with a last line that does not parse (or with no line) ends without an
\* exception leaving _worker, and its slot stays unset.
C10_ParseFailureHandled ==
  \A t \in DOMAIN threads :
    (OneStart /\ threads[t].state = "finished" /\ ~Broke(threads[t])
       /\ RecordOf(threads[t]).err # NoErr) =>
      /\ threads[t].exc = NoErr
      /\ results.v[threads[t].idx] = PyNone

\* the threads a start() call has spawned are bound to node 1, node 2, ... in
\* that order, and worker_threads lists those that the call has appended, in
\* the same order; once the call has returned they are N
C11_Spawned ==
  /\ SpawnedCount <= Len(threads)
  /\ \A i \in 1..SpawnedCount :
       /\ threads[Len(threads) - SpawnedCount + i].idx = i
       /\ threads[Len(threads) - SpawnedCount + i].node = nodes[i]
  /\ worker_threads.tag = "list" =>
       /\ Len(worker_threads.v) = SpawnedCount - (IF caller.at = 35 THEN 1 ELSE 0)
       /\ \A i \in DOMAIN worker_threads.v :
            worker_threads.v[i] = Len(threads) - SpawnedCount + i
  /\ (caller.op # "start" /\ worker_threads.tag = "list") => SpawnedCount = N

\* the steps of a start() call after line 23
C11_StartStep == StartResults \/ StartStats \/ StartThread \/ StartAppend \/ StartReturn

\* a step that spawns a thread is a step of start(), spawns one thread, the
\* worker bound to the node of the iteration, running, and touches no other
\* thread; the step in which start() returns comes after N threads were
\* spawned and changes neither the threads nor the lists
C11_Step ==
  /\ Len(threads') # Len(threads) =>
       /\ caller.op = "start"
       /\ Len(threads') = Len(threads) + 1
       /\ threads'[Len(threads')].idx = caller.k
       /\ threads'[Len(threads')].node = nodes[caller.k]
       /\ threads'[Len(threads')].state = "running"
       /\ threads'[Len(threads')].last = PyNone
       /\ \A t \in DOMAIN threads : threads'[t] = threads[t]
  /\ (caller.op = "start" /\ caller'.op # "start") =>
       /\ SpawnedCount = N
       /\ caller' = Idle
       /\ outcome' = [call |-> "start", err |-> NoErr]
       /\ UNCHANGED <<threads, worker_threads, results, stats>>

\* C11: start() spawns exactly N threads, one per node and in node order, the
\* i-th of them the worker bound to (i, node i) and running, and lists them in
\* worker_threads in that order; it touches no earlier thread; and it waits for
\* no worker: whatever the workers have done, the caller inside start() can
\* take its next step, up to the return.
C11_StartSpawnsAll ==
  /\ [](C11_Spawned /\ (caller.op = "start" => ENABLED C11_StartStep))
  /\ [][C11_Step]_vars

\* start() has returned from a run of several nodes and all its workers are
\* still running, none having read a line
C11_Witness ==
  /\ N >= 2
  /\ caller = Idle
  /\ outcome = [call |-> "start", err |-> NoErr]
  /\ Len(threads) = N
  /\ worker_threads = PyList([i \in 1..N |-> i])
  /\ \A t \in DOMAIN threads : threads[t].state = "running" /\ threads[t].last = PyNone

\* what C12 says of the state: self.args holds the translated throughput, and
\* the command of every worker was formatted with it
C12_Translated ==
  /\ variant = "RestProducer" =>
       /\ args.throughput = (IF requested.throughput <= 0 THEN -requested.batch_size
                             ELSE requested.throughput)
       /\ args.batch_size = requested.batch_size
       /\ \A t \in DOMAIN threads : threads[t].cmd = <<args.batch_size, args.throughput>>
  /\ variant = "RestConsumer" =>
       /\ args.throughput = (IF requested.throughput <= 0 THEN -100
                             ELSE requested.throughput)
       /\ \A t \in DOMAIN threads : threads[t].cmd = <<args.throughput>>

\* C12: a requested throughput <= 0 (0 included) is placed in the command as
\* -batch_size by the REST producer and as -100 by the REST consumer, a
\* throughput > 0 unchanged; self.args is not assigned after construction, so
\* every worker's command carries the same value.
C12_ThroughputTranslation == []C12_Translated /\ [][args' = args]_vars

\* a REST producer constructed with throughput 0: both workers have built their
\* command with -batch_size
C12_Witness ==
  /\ variant = "RestProducer"
  /\ requested.throughput = 0
  /\ Len(threads) = 2
  /\ \A t \in DOMAIN threads : threads[t].cmd = <<requested.batch_size, -requested.batch_size>>

\* parse_stats and parse_performance_output raise, and return nothing, on every
\* input line with fewer than 8 fields
ShortInputsRejected ==
  \A l \in ShortInputs :
      /\ SampleOf[l].err # NoErr /\ SampleOf[l].val = PyNone
      /\ FinalParseOf["RestConsumer"][PyStr(l)].err # NoErr
      /\ FinalParseOf["RestConsumer"][PyStr(l)].val = PyNone

\* C13: parse_stats and parse_performance_output raise, and return nothing, on
\* every input line with fewer than 8 comma-separated fields; a worker whose
\* last line is such a line leaves its slot unset and ends with the error
\* logged or raised; and every record stored in a slot or a sample sequence
\* holds all 9 canonical fields.
C13_ShortLineNoRecord ==
  /\ ShortInputsRejected
  /\ (variant \in CanonicalVariants /\ results.tag = "list") =>
       /\ \A t \in DOMAIN threads :
            (Returned(threads[t]) /\ threads[t].last.tag = "str"
               /\ threads[t].last.v \in ShortInputs) =>
              /\ OneStart => results.v[threads[t].idx] = PyNone
              /\ threads[t].error_logged
            \* (a worker of the classes that do not catch has not Returned)
       /\ \A i \in 1..N :
            /\ results.v[i] # PyNone =>
                 results.v[i].tag = "dict" /\ CanonicalFields \subseteq DOMAIN results.v[i].v
            /\ stats.tag = "list" =>
                 \A k \in DOMAIN stats.v[i] :
                   stats.v[i][k].tag = "dict" /\ DOMAIN stats.v[i][k].v = CanonicalFields

\* a sampling producer worker read a complete summary line, then one cut after
\* its seventh field, and ended: one sample, no result
C13_Witness ==
  /\ variant = "Producer"
  /\ intermediate_stats
  /\ OneStart
  /\ \E t \in DOMAIN threads :
       /\ Returned(threads[t])
       /\ threads[t].last = PyStr(Truncated(ExampleFields, 7))
       /\ results.v[threads[t].idx] = PyNone
       /\ Len(stats.v[threads[t].idx]) = 1

\* the float of the whole number n, 0 <= n < 2^31
Whole(n) == Finite(1, BigOfInt(n), 0)

\* the float n / 2
Halves(n) == Finite(1, BigOfInt(n), -1)

\* the float of the literal 12.3: 3462142213541069 * 2^-48, the double
\* nearest to 12.3
Float12_3 == Finite(1, <<19661, 6553, 13107, 98>>, -48)

\* the record of the summary line "1000 records, 500.0 records/sec (2.5 MB/sec),
\* 10.0 ms avg, 50.0 ms max, 8.0 ms 50th, 20.0 ms 95th, 30.0 ms 99th, 40.0 ms 99.9th"
ExampleRecord ==
  [records |-> IntOfNum(1000), records_per_sec |-> Whole(500), mbps |-> Halves(5),
   latency_avg_ms |-> Whole(10), latency_max_ms |-> Whole(50),
   latency_50th_ms |-> Whole(8), latency_95th_ms |-> Whole(20),
   latency_99th_ms |-> Whole(30), latency_999th_ms |-> Whole(40)]

\* mbps * records / records_per_sec of the canonical fields d, as floating-point
\* arithmetic gives it: grouped from the left as the formula is written, or
\* with the quotient first
TotalOfFields(d) ==
  {FloatDiv(FloatMul(d["mbps"], FloatNearInt(d["records"])), d["records_per_sec"]).val,
   FloatMul(d["mbps"], FloatDiv(FloatNearInt(d["records"]), d["records_per_sec"]).val)}

\* for every well-formed line whose rate is not zero and whose number of
\* records has a float, what total_mb may be
TotalOf ==
  [l \in {w \in WellFormedInputs :
            /\ ~IsZero(SampleOf[w].val.v["records_per_sec"])
            /\ FloatOfInt(SampleOf[w].val.v["records"]).err = NoErr} |->
     TotalOfFields(SampleOf[l].val.v)] @@ <<>>

\* d, the record of the line l, holds the canonical fields and exactly the
\* three derived fields, with total_mb = mbps * records / records_per_sec
HasDerived(d, l) ==
  /\ DOMAIN d = CanonicalFields \cup DerivedFields
  /\ d["rate_mbps"] = d["mbps"]
  /\ d["rate_mps"] = d["records_per_sec"]
  /\ l \in DOMAIN TotalOf /\ d["total_mb"] \in TotalOf[l]

\* C14: a worker whose last line is a well-formed summary line stores a record:
\* with the 9 canonical fields and the three derived ones when its class uses
\* parse_performance_output, with the 9 canonical fields alone when it parses
\* inline (producer, REST producer); for the line of 1000 records, 500.0
\* records/sec and 2.5 MB/sec the canonical values are those of the line and
\* total_mb is 5.0.
C14_WellFormedParsed ==
  \A t \in DOMAIN threads :
    (OneStart /\ threads[t].state = "finished" /\ ~Broke(threads[t]) /\ variant # "Consumer"
       /\ threads[t].last.tag = "str" /\ threads[t].last.v \in WellFormedInputs) =>
      /\ results.v[threads[t].idx].tag = "dict"
      /\ IF variant \in {"RestConsumer", "SchemaRegistry"}
         THEN HasDerived(results.v[threads[t].idx].v, threads[t].last.v)
         ELSE DOMAIN results.v[threads[t].idx].v = CanonicalFields
      /\ threads[t].last.v = JoinComma(ExampleFields) =>
           /\ \A k \in CanonicalFields : results.v[threads[t].idx].v[k] = ExampleRecord[k]
           /\ variant \in {"RestConsumer", "SchemaRegistry"} =>
                results.v[threads[t].idx].v["total_mb"] = Whole(5)

\* the Percentiles line of C15, with a unit after two of the values
UnitPercentiles == "Percentiles: 50th = 10.0ms, 99th = 30.0ms, 99.9th = 40.0"

\* the same line without the units
PlainPercentiles == "Percentiles: 50th = 10.0, 99th = 30.0, 99.9th = 40.0"

\* the record C15 expects
LatencyRecord ==
  [latency_avg_ms |-> Float12_3, latency_50th_ms |-> Whole(10),
   latency_99th_ms |-> Whole(30), latency_999th_ms |-> Whole(40)]

\* for every line of the model, the float of each of its whitespace-separated
\* tokens (numbered from 1)
FloatOfToken ==
  [l \in LatencyLines |->
     <<>> \o [i \in 1..Len(SplitWs(l)) |-> float(SplitWs(l)[i]).val]] @@ <<>>

\* likewise, of each token without its last character
FloatOfCutToken ==
  [l \in LatencyLines |->
     <<>> \o [i \in 1..Len(SplitWs(l)) |-> float(DropLast(SplitWs(l)[i])).val]] @@ <<>>

\* C15 as stated: a worker that has just read the line "Percentiles: 50th =
\* 10.0ms, 99th = 30.0ms, 99.9th = 40.0" goes on with 10.0, 30.0 and 40.0 in
\* its record, and once it has also read "Avg latency: 12.3 ms" and its stream
\* has ended its slot holds the four values.
C15_UnitsRemoved ==
  \A t \in DOMAIN threads :
    threads[t].line = PyStr(UnitPercentiles) =>
      /\ threads[t].exc = NoErr
      /\ \A k \in {"latency_50th_ms", "latency_99th_ms", "latency_999th_ms"} :
           k \in DOMAIN threads[t].local_results
             /\ threads[t].local_results[k] = LatencyRecord[k]

\* C15, amended: the worker ends by storing its local record in its slot; after
\* a line starting with "Avg latency:" that it survived, the record's
\* latency_avg_ms is the float of token 2 of the line, and after a line
\* starting with "Percentiles" the three percentiles are the floats of tokens
\* 3 and 6 without their last character and of token 9; so "Avg latency: 12.3
\* ms" gives 12.3 and "Percentiles: 50th = 10.0, 99th = 30.0, 99.9th = 40.0"
\* gives 10.0, 30.0, 40.0, while the line with "ms" before the commas raises
\* ValueError and the slot stays unset.
C15_TokensExtracted ==
  \A t \in DOMAIN threads :
    /\ (OneStart /\ Returned(threads[t])) =>
         results.v[threads[t].idx] = PyDict(threads[t].local_results)
    /\ threads[t].line = PyStr(UnitPercentiles) =>
         /\ threads[t].exc = "ValueError"
         /\ OneStart => results.v[threads[t].idx] = PyNone
    /\ (threads[t].line = PyStr("Avg latency: 12.3 ms") /\ threads[t].exc = NoErr) =>
         threads[t].local_results["latency_avg_ms"] = Float12_3
    /\ (threads[t].line = PyStr(PlainPercentiles) /\ threads[t].exc = NoErr) =>
         \A k \in {"latency_50th_ms", "latency_99th_ms", "latency_999th_ms"} :
           threads[t].local_results[k] = LatencyRecord[k]
    /\ (threads[t].line.tag = "str" /\ threads[t].exc = NoErr
          /\ StartsWith(threads[t].line.v, "Avg latency:")) =>
         threads[t].local_results["latency_avg_ms"] = FloatOfToken[threads[t].line.v][3]
    /\ (threads[t].line.tag = "str" /\ threads[t].exc = NoErr
          /\ StartsWith(threads[t].line.v, "Percentiles")) =>
         /\ threads[t].local_results["latency_50th_ms"] = FloatOfCutToken[threads[t].line.v][4]
         /\ threads[t].local_results["latency_99th_ms"] = FloatOfCutToken[threads[t].line.v][7]
         /\ threads[t].local_results["latency_999th_ms"] = FloatOfToken[threads[t].line.v][10]

\* a worker read "Avg latency: 12.3 ms" and the Percentiles line without
\* units, its stream ended, and its slot holds the four values
C15_Witness ==
  /\ OneStart
  /\ results.tag = "list"
  /\ \E t \in DOMAIN threads :
       /\ Returned(threads[t])
       /\ threads[t].line = PyStr(PlainPercentiles)
       /\ results.v[threads[t].idx] = PyDict(LatencyRecord)

\* what the step of worker t did to its sample sequence, when the worker read
\* a line in the step
SampleStep(t) ==
  IF SampleOf[threads'[t].last.v].err = NoErr
  THEN stats'.v[threads[t].idx] =
         Append(stats.v[threads[t].idx], SampleOf[threads'[t].last.v].val)
  ELSE stats'.v[threads[t].idx] = stats.v[threads[t].idx]

\* a step of a sampling producer run, seen from worker t: a step that changes
\* the worker's last line or its sample sequence is an iteration of a running
\* worker, leaves the worker running, and appends the record of the line it
\* read when that line parses and nothing when it does not; the step that ends
\* the worker leaves the samples alone
C16_LineStep(t) ==
  /\ (threads'[t].last # threads[t].last
        \/ (OneStart' /\ stats'.v[threads[t].idx] # stats.v[threads[t].idx])) =>
       /\ threads[t].state = "running"
       /\ threads'[t].state = "running"
       /\ threads'[t].last.tag = "str"
       /\ SampleStep(t)
  /\ threads'[t].state # threads[t].state => stats' = stats

\* in a state: without intermediate sampling every sample sequence is empty;
\* the result of a sampling worker that ended is the record of its last line
\* if that line parses and None if not, whatever the samples are
C16_Samples ==
  stats.tag = "list" =>
    /\ ~(variant = "Producer" /\ intermediate_stats) => \A i \in 1..N : stats.v[i] = <<>>
    /\ (variant = "Producer" /\ intermediate_stats /\ OneStart) =>
         \A t \in DOMAIN threads :
           Returned(threads[t]) =>
             results.v[threads[t].idx] =
               IF FinalParseOf[variant][threads[t].last].err = NoErr
               THEN FinalParseOf[variant][threads[t].last].val ELSE PyNone

\* C16: in a producer run with intermediate sampling, a line that does not
\* parse is skipped and the worker goes on reading, so the sample sequence of a
\* node grows by exactly the record of each line that parses, in arrival order
\* (its last line included), and the result is that of the last line alone;
\* without intermediate sampling the sample sequences stay empty.
C16_SamplesFollowLines ==
  /\ []C16_Samples
  /\ [][(variant = "Producer" /\ intermediate_stats) =>
          \A t \in DOMAIN threads : C16_LineStep(t)]_vars

\* a sampling worker read the line of 1000 records, the line of 0 records and
\* then a line cut after its seventh field (with further lines that do not
\* parse anywhere between them), and ended: two samples in that order, no result
C16_Witness ==
  /\ variant = "Producer"
  /\ intermediate_stats
  /\ OneStart
  /\ \E t \in DOMAIN threads :
       /\ Returned(threads[t])
       /\ threads[t].last = PyStr(Truncated(ExampleFields, 7))
       /\ stats.v[threads[t].idx] =
            <<SampleOf[JoinComma(ExampleFields)].val, SampleOf[JoinComma(ZeroRateFields)].val>>
       /\ results.v[threads[t].idx] = PyNone

\* the slot of a worker of a summary class: None while the worker reads its
\* stream, and once it ended the record its parser makes of its last line, or
\* None when the parser rejects that line or the worker broke off
C17_SlotOfLast ==
  (OneStart /\ results.tag = "list") =>
    \A t \in DOMAIN threads :
      results.v[threads[t].idx] =
        IF threads[t].state = "finished" /\ ~Broke(threads[t])
             /\ FinalParseOf[variant][threads[t].last].err = NoErr
        THEN FinalParseOf[variant][threads[t].last].val
        ELSE PyNone

\* a step that changes worker t's slot is the step in which that worker leaves
\* its loop and ends; it reads no line
C17_WrittenAtEnd(t) ==
  (OneStart' /\ results'.v[threads[t].idx] # results.v[threads[t].idx]) =>
    /\ threads[t].state = "running"
    /\ threads'[t].state = "finished"
    /\ threads'[t].last = threads[t].last

\* C17: the result stored for a node is the record of the last line its worker
\* read and of nothing else; the slot is written only by the step that follows
\* the end of the stream, never by a step that reads a line; when the last line
\* is no valid summary the slot is None, whatever the earlier lines were.
C17_LastLineWins ==
  /\ []C17_SlotOfLast
  /\ [][\A t \in DOMAIN threads : C17_WrittenAtEnd(t)]_vars

\* a sampling producer worker read the line of 1000 records, which it sampled,
\* and then as its last line a consumer summary, which its parser rejects: the
\* valid line is among the samples and the slot is None
C17_Witness ==
  /\ variant = "Producer"
  /\ intermediate_stats
  /\ OneStart
  /\ \E t \in DOMAIN threads :
       /\ threads[t].state = "finished"
       /\ threads[t].last = PyStr(ConsumerLine)
       /\ stats.v[threads[t].idx] = <<SampleOf[JoinComma(ExampleFields)].val>>
       /\ results.v[threads[t].idx] = PyNone

\* the steps of a worker of the run's class in the order the claim gives them:
\* data generation, configuration distribution, properties file, main command
C18_Steps ==
  IF variant = "Camus" THEN <<"produce", "confs", "props", "main">> ELSE <<"confs", "main">>

\* the steps a worker has completed are the first ones of that order, the step
\* it is at is the next one, a worker that returned has completed them all, and
\* one that an exception ended has not completed the step it was at nor any
\* later one
C18_InOrder ==
  \A t \in DOMAIN threads :
    /\ Len(threads[t].ran) <= Len(C18_Steps)
    /\ threads[t].ran = SubSeq(C18_Steps, 1, Len(threads[t].ran))
    /\ threads[t].state = "running" => threads[t].stage = C18_Steps[Len(threads[t].ran) + 1]
    /\ Returned(threads[t]) => threads[t].ran = C18_Steps
    /\ Broke(threads[t]) =>
         /\ Len(threads[t].ran) < Len(C18_Steps)
         /\ threads[t].stage = C18_Steps[Len(threads[t].ran) + 1]

\* no slot and no sample sequence is ever written
C18_NoResult ==
  /\ results.tag = "list" => \A i \in 1..N : results.v[i] = PyNone
  /\ stats.tag = "list" => \A i \in 1..N : stats.v[i] = <<>>

\* a step of worker t: it completes at most the step the worker is at, it
\* changes no other worker, and a worker that ended does nothing more
C18_NodeStep(t) ==
  /\ threads[t].state = "finished" => threads'[t] = threads[t]
  /\ threads'[t] # threads[t] =>
       /\ \A u \in DOMAIN threads : u # t => threads'[u] = threads[u]
       /\ \/ threads'[t].ran = threads[t].ran
          \/ threads'[t].ran = Append(threads[t].ran, threads[t].stage)

\* C18: a Camus worker runs data generation, configuration distribution,
\* properties-file creation and the main command in that order, each after the
\* one before it has finished (a Hadoop worker: configuration distribution, then
\* the main command); an exception in a step ends that worker before the later
\* steps and leaves the other workers alone; no worker writes a slot, so every
\* slot is None after wait().
C18_StagesInOrder ==
  /\ [](C18_InOrder /\ C18_NoResult)
  /\ [][\A t \in DOMAIN threads : C18_NodeStep(t)]_vars

\* a Camus run on two nodes after wait() returned: one worker completed the
\* four steps, the other completed data generation and configuration
\* distribution and broke off creating the properties file; both slots are None
C18_Witness ==
  /\ variant = "Camus"
  /\ outcome = WaitOk
  /\ N = 2
  /\ \E t, u \in DOMAIN threads :
       /\ Returned(threads[t])
       /\ threads[t].ran = <<"produce", "confs", "props", "main">>
       /\ Broke(threads[u])
       /\ threads[u].ran = <<"produce", "confs">>
       /\ threads[u].stage = "props"
  /\ results = PyList(<<PyNone, PyNone>>)

\* C19: between the return of a wait() and the next start() (self.worker_threads
\* is None from the one to the other) no step changes a result slot or a sample
\* sequence, whatever start(), wait() and stop() calls came before, a start()
\* while workers of an earlier start() still run included.
C19_StableAfterWait ==
  [][(worker_threads = PyNone /\ worker_threads' = PyNone) =>
       (results' = results /\ stats' = stats)]_vars

PercentileKeys == {"latency_50th_ms", "latency_99th_ms", "latency_999th_ms"}

\* the keys a line gives values to: by the marker it starts with
MarkerKeys(line) ==
  IF StartsWith(line, "Avg latency:") THEN {"latency_avg_ms"}
  ELSE IF StartsWith(line, "Percentiles") THEN PercentileKeys
  ELSE {}

\* the number at the 1-based position i of the whitespace-separated tokens of
\* line, without the token's last character when cut; an error when there is
\* no such token or it is no number
NumberAt(line, i, cut) ==
  IF Len(SplitWs(line)) < i THEN [err |-> "IndexError", val |-> NaN]
  ELSE IF cut THEN float(DropLast(SplitWs(line)[i]))
  ELSE float(SplitWs(line)[i])

\* for every line of the model, the number it gives to each of its keys
MarkerOf ==
  [l \in LatencyLines |->
     [k \in MarkerKeys(l) |->
        CASE k = "latency_avg_ms" -> NumberAt(l, 3, FALSE)
          [] k = "latency_50th_ms" -> NumberAt(l, 4, TRUE)
          [] k = "latency_99th_ms" -> NumberAt(l, 7, TRUE)
          [] k = "latency_999th_ms" -> NumberAt(l, 10, FALSE)] @@ <<>>] @@ <<>>

\* the lines whose marker is followed by the numbers it announces
NumericLines ==
  {l \in LatencyLines : \A k \in DOMAIN MarkerOf[l] : MarkerOf[l][k].err = NoErr}

\* a step in which worker t read a line (threads'[t].line) and did not leave
\* its loop by the end of the stream or a failure of the channel: after a line
\* whose numbers are numbers the worker goes on, and its record holds the keys
\* it held before and those of the line's marker, the latter with the line's
\* values; after any other marker line the worker has failed; no slot changes
C20_ReadStep(t) ==
  (threads[t].state = "running" /\ threads'[t] # threads[t]
     /\ ~Broke(threads'[t]) /\ ~Returned(threads'[t])) =>
    /\ results' = results
    /\ threads'[t].line.tag = "str"
    /\ IF threads'[t].line.v \in NumericLines
       THEN /\ threads'[t].state = "running"
            /\ DOMAIN threads'[t].local_results =
                 DOMAIN threads[t].local_results \cup MarkerKeys(threads'[t].line.v)
            /\ \A k \in DOMAIN threads'[t].local_results :
                 threads'[t].local_results[k] =
                   IF k \in MarkerKeys(threads'[t].line.v)
                   THEN MarkerOf[threads'[t].line.v][k].val
                   ELSE threads[t].local_results[k]
       ELSE /\ threads'[t].state = "finished"
            /\ threads'[t].exc \in {"ValueError", "IndexError"}

\* a step that changes worker t's slot is the step that follows the end of its
\* stream: the worker returns, and it reads no line
C20_EndStep(t) ==
  (OneStart' /\ results'.v[threads[t].idx] # results.v[threads[t].idx]) =>
    /\ threads[t].state = "running"
    /\ Returned(threads'[t])
    /\ threads'[t].line = threads[t].line
    /\ threads'[t].local_results = threads[t].local_results

\* the slot of a worker that returned is its record, a dict, empty when no
\* marker line came, that holds the three percentiles together or none of
\* them; any other worker's slot is None
C20_Slots ==
  results.tag = "list" =>
    \A t \in DOMAIN threads :
      /\ OneStart =>
           results.v[threads[t].idx] =
             IF Returned(threads[t]) THEN PyDict(threads[t].local_results) ELSE PyNone
      /\ threads[t].exc = NoErr =>
           /\ DOMAIN threads[t].local_results \subseteq {"latency_avg_ms"} \cup PercentileKeys
           /\ \/ PercentileKeys \subseteq DOMAIN threads[t].local_results
              \/ PercentileKeys \cap DOMAIN threads[t].local_results = {}
      /\ threads[t].line = PyNone => threads[t].local_results = <<>>

\* C20: an end-to-end latency worker whose stream ends without an error writes
\* its slot once, with a record that holds latency_avg_ms exactly when a line
\* started with "Avg latency:" and the three percentiles, all together, exactly
\* when a line started with "Percentiles" (the empty record when neither
\* came), each with the values of the last such line; a marker line whose
\* tokens are no numbers ends the worker with an exception and its slot None.
C20_MarkersDecideRecord ==
  /\ []C20_Slots
  /\ [][\A t \in DOMAIN threads : C20_ReadStep(t) /\ C20_EndStep(t)]_vars

\* a worker read "Avg latency: 12.3 ms", the percentiles 1, 2, 3, then "Avg
\* latency: 7.5 ms" and other output, and its stream ended: the slot holds the
\* later average and the percentiles
C20_Witness ==
  /\ OneStart
  /\ results.tag = "list"
  /\ \E t \in DOMAIN threads :
       /\ Returned(threads[t])
       /\ threads[t].line = PyStr("0 messages\n")
       /\ results.v[threads[t].idx] =
            PyDict([latency_avg_ms |-> Halves(15), latency_50th_ms |-> Whole(1),
                    latency_99th_ms |-> Whole(2), latency_999th_ms |-> Whole(3)])

\* the result of the parser that the class of the run does not use, on the
\* value last: the inline producer parser for the classes that call
\* parse_performance_output, and parse_performance_output for the producer
\* classes, which parse inline
OtherParse(last) ==
  IF variant \in {"Producer", "RestProducer"}
  THEN FinalParseOf["RestConsumer"][last]
  ELSE FinalParseOf["Producer"][last]

\* C21: parse_performance_output and the inline producer parser agree on the
\* canonical fields: a worker that applied one of them to its last line has
\* stored a record exactly when the other one accepts that line too (a line
\* with 0 records/sec included), and then the 9 canonical fields of the stored
\* record are those the other one returns.
C21_ParsersAgree ==
  \A t \in DOMAIN threads :
    (OneStart /\ threads[t].state = "finished" /\ ~Broke(threads[t]) /\ variant # "Consumer") =>
      /\ (results.v[threads[t].idx] # PyNone) <=> (OtherParse(threads[t].last).err = NoErr)
      /\ (results.v[threads[t].idx] # PyNone /\ OtherParse(threads[t].last).err = NoErr) =>
           \A k \in CanonicalFields :
             results.v[threads[t].idx].v[k] = OtherParse(threads[t].last).val.v[k]

=============================================================================
